---- MODULE Spec2Model ----
(***************************************************************************)
(* Invoice image normalization pipeline of image_processor/views.py:       *)
(* boundary detection (three strategies, arbitration, margin crop), the    *)
(* parametric enhancement chain process_with_custom_params, the two       *)
(* routed endpoints that call it, and the fixed pipeline                   *)
(* process_invoice_image that urls.py leaves unrouted.                     *)
(* Further sections: the spread alert of exchange_rates/alert_utils.py,    *)
(* the user lookup of invoice_processor/views.py under concurrent          *)
(* requests, and _save_to_database of invoice_processor/services.py.       *)
(*                                                                         *)
(* Numbers.  cv2.contourArea returns multiples of 0.5, so a contour        *)
(* carries a2 = 2 * area.  The float comparisons of the code are written   *)
(* as the integer comparisons they decide:                                 *)
(*   (w*h)*0.10 < area   <=>  w*h < 5*a2                                   *)
(*   area < (w*h)*0.98   <=>  25*a2 < 49*w*h                               *)
(*   0.3 < cw/float(ch)  <=>  3*ch < 10*cw                                 *)
(*   cw/float(ch) < 3.0  <=>  cw < 3*ch                                    *)
(*   int(cw * 0.03)       =   (3*cw) \div 100                              *)
(* sharpness is carried in tenths (10 is the factor 1.0).                  *)
(***************************************************************************)
EXTENDS Integers, Sequences, FiniteSets, TLC

VARIABLES
    \* ---- detect_and_crop_invoice_improved, stepped ----
    dimg,       \* the image handed to the detector
    dpc,        \* position inside the detector
    result1,    \* strategy_canny()      <<>> = None, <<c>> = a candidate
    result2,    \* strategy_otsu()
    result3,    \* strategy_brightness()
    results,    \* the list `results` of (name, candidate)
    chosen,     \* results[0] after the sort, <<>> before
    dout,       \* the image returned, <<>> before the return
    \* ---- lines 310-324 alone, on any valid rectangle ----
    cin,        \* [w, h, rect]: image size and winning rectangle
    cout,       \* <<>> before, then <<"ok", image>> or <<"raised">>
    \* ---- one caller after another of process_with_custom_params ----
    req,        \* the request or call being served
    params,     \* the parameter record (a dict the callee mutates)
    ppc,        \* position inside the handler
    pimage,     \* the image value flowing through the chain
    stages,     \* names of the stages run so far, in order
    resp,       \* what the caller got
    ref,        \* <<>>, or <<an earlier call kept for comparison>>
    \* ---- exchange_rates/alert_utils.py: check_and_alert, stepped ----
    astate,     \* the single AlertState row
    today,      \* date.today(), a day number
    clock,      \* the last instant timezone.now() returned
    apc,        \* position inside check_and_alert
    alocal,     \* the locals of the current (or last) run; spreads_found
                \* is len(spreads) of line 237, 0 when that line was not run
    aprev,      \* the last earlier run that found a spread, summarised
    recalcs,    \* times update_alert_state_bands stored bands today
    \* ---- invoice_processor/views.py: concurrent process_invoice_from_n8n ----
    users,      \* usernames of the auth User rows
    profiles,   \* the UserProfile rows, [user, telegram_user]
    ureq,       \* per request: its telegram_user, position and locals
    created,    \* usernames of the User rows the endpoint created
    \* ---- invoice_processor/services.py: one _save_to_database call ----
    sdata,      \* normalized_data: [establishment, items]
    spc,        \* position inside the call
    sidx,       \* index of the item the loop is at
    sdb,        \* the committed rows
    sbefore,    \* the committed rows when the call began
    swork,      \* the rows as the call's transaction sees them
    spurchase   \* id of the Purchase the call created, 0 before

cvars == <<cin, cout>>

pvars == <<req, params, ppc, pimage, stages, resp, ref>>

dvars == <<dimg, dpc, result1, result2, result3, results, chosen, dout>>

avars == <<astate, today, clock, apc, alocal, aprev, recalcs>>

uvars == <<users, profiles, ureq, created>>

svars == <<sdata, spc, sidx, sdb, sbefore, swork, spurchase>>

xvars == <<avars, uvars, svars>>

\* what the alert, the user and the save actions leave alone
ivars == <<dvars, cvars, pvars>>

oavars == <<ivars, uvars, svars>>

ouvars == <<ivars, avars, svars>>

osvars == <<ivars, avars, uvars>>

(***************************************************************************)
(* Bounds of the model.                                                    *)
(***************************************************************************)
\* most contours cv2.findContours yields for one image, all strategies together
MaxContours == 2
\* longest image side when the crop is checked on arbitrary rectangles
MaxSide == 40
\* most fields of a parameter record that differ from its base record
MaxOverrides == 1

Max(a, b) == IF a >= b THEN a ELSE b
Min(a, b) == IF a <= b THEN a ELSE b

(***************************************************************************)
(* Images.  What the detector reads of an image is its size and the        *)
(* contours findContours extracts in each strategy, in iteration order.    *)
(* A contour: a2 (twice its contourArea), its boundingRect x, y, cw, ch    *)
(* and nv, the vertex count of its approxPolyDP polygon.                   *)
(***************************************************************************)
Tags == {"canny", "otsu_normal", "otsu_inverted", "brightness"}

Contour(a2, x, y, cw, ch, nv) ==
    [a2 |-> a2, x |-> x, y |-> y, cw |-> cw, ch |-> ch, nv |-> nv]

\* contours of a 100 x 100 image (band: 1000 < area < 9800)
SmallContours ==
    { Contour(5782, 20, 20, 50, 60, 4),    \* plain rectangle, passes
      Contour(5782, 0, 0, 50, 60, 6),      \* at the origin, closer than a margin
      Contour(5782, 20, 20, 60, 50, 4),    \* same area, other rectangle
      Contour(8142, 20, 20, 70, 60, 6),    \* larger, not 4 vertices
      Contour(12482, 10, 10, 80, 80, 4),   \* whole image: is_full
      Contour(12482, 11, 10, 80, 80, 4),   \* one pixel off is_full
      Contour(5162, 5, 0, 90, 30, 4),      \* aspect ratio exactly 3.0
      Contour(5742, 60, 0, 30, 100, 4),    \* aspect ratio exactly 0.3
      Contour(2000, 30, 20, 41, 26, 4),    \* area exactly 10 %
      Contour(2001, 30, 20, 41, 27, 5) }   \* area 10 % plus half a pixel

\* contours of a 1200 x 1000 image (band: 120000 < area < 1176000)
LargeContours ==
    { Contour(2352000, 0, 0, 1179, 1000, 4),   \* area exactly 98 %
      Contour(2351999, 0, 0, 1179, 1000, 4),   \* half a pixel below 98 %
      Contour(1400000, 100, 100, 1000, 800, 4) }

Sizes == { <<100, 100>>, <<1200, 1000>> }

ContoursFor(w, h) == IF w = 100 THEN SmallContours ELSE LargeContours

\* a contour lies inside the image and its area fits its bounding box
Physical(c, w, h) ==
    /\ c.x >= 0 /\ c.y >= 0 /\ c.cw >= 1 /\ c.ch >= 1
    /\ c.x + c.cw <= w /\ c.y + c.ch <= h
    /\ c.a2 <= 2 * (c.cw - 1) * (c.ch - 1)

SeqsUpTo(S, n) == UNION { [1..k -> S] : k \in 0..n }

ImagesUpTo(n) ==
    { [w |-> s[1], h |-> s[2], found |-> f] :
        s \in Sizes, f \in SeqsUpTo(Tags \X (SmallContours \cup LargeContours), n) }

WellFormed(img) ==
    \A i \in 1..Len(img.found) :
        /\ img.found[i][2] \in ContoursFor(img.w, img.h)
        /\ Physical(img.found[i][2], img.w, img.h)

Images(n) == { img \in ImagesUpTo(n) : WellFormed(img) }

\* the contours one findContours call returns, in its order
RECURSIVE Pick(_, _)
Pick(found, tag) ==
    IF found = <<>> THEN <<>>
    ELSE LET rest == Pick(Tail(found), tag)
         IN  IF Head(found)[1] = tag THEN <<Head(found)[2]>> \o rest ELSE rest

ContoursOf(img, tag) == Pick(img.found, tag)

(***************************************************************************)
(* The filters shared by the three strategies.                             *)
(***************************************************************************)
\* variant: the band taken closed, min_area <= area <= max_area
InBandClosed(a2, w, h) == w * h <= 5 * a2 /\ 25 * a2 <= 49 * w * h

\* min_area < area < max_area
InBand(a2, w, h) == w * h < 5 * a2 /\ 25 * a2 < 49 * w * h

\* variant: the origin test taken strict, x < 10 and y < 10
IsFullStrictOrigin(c, w, h) ==
    c.x < 10 /\ c.y < 10 /\ c.cw >= w - 20 /\ c.ch >= h - 20

\* is_full = (x <= 10 and y <= 10 and cw >= w-20 and ch >= h-20)
IsFull(c, w, h) == c.x <= 10 /\ c.y <= 10 /\ c.cw >= w - 20 /\ c.ch >= h - 20

\* 0.3 < aspect_ratio < 3.0, aspect_ratio = cw / float(ch) if ch > 0 else 0
AspectOk(c) == c.ch > 0 /\ 3 * c.ch < 10 * c.cw /\ c.cw < 3 * c.ch

\* the tuple (x, y, cw, ch, area) a strategy returns
Candidate(c) == [x |-> c.x, y |-> c.y, cw |-> c.cw, ch |-> c.ch, a2 |-> c.a2]

(***************************************************************************)
(* strategy_canny: score = area * (1.0 if 4 vertices else 0.7); the score  *)
(* is carried as score10 = a2 * 10 or a2 * 7.                              *)
(***************************************************************************)
\* variant: the vertex weight dropped, score = area
CannyScoreAreaOnly(c) == 10 * c.a2

CannyScore(c) == IF c.nv = 4 THEN 10 * c.a2 ELSE 7 * c.a2

RECURSIVE CannyLoop(_, _, _, _, _)
CannyLoop(cs, w, h, best, bestScore) ==
    IF cs = <<>> THEN best
    ELSE LET c == Head(cs)
             take == /\ InBand(c.a2, w, h)
                     /\ ~IsFull(c, w, h) /\ AspectOk(c)
                     /\ CannyScore(c) > bestScore
         IN  IF take
             THEN CannyLoop(Tail(cs), w, h, <<Candidate(c)>>, CannyScore(c))
             ELSE CannyLoop(Tail(cs), w, h, best, bestScore)

StrategyCanny(img) ==
    LET cs == ContoursOf(img, "canny")
    IN  IF Len(cs) = 0 THEN <<>> ELSE CannyLoop(cs, img.w, img.h, <<>>, 0)

(***************************************************************************)
(* strategy_otsu: survivors of both polarities, results.sort(reverse=True) *)
(* on tuples (area, x, y, cw, ch), results[0].                             *)
(***************************************************************************)
RECURSIVE OtsuSurvivors(_, _, _)
OtsuSurvivors(cs, w, h) ==
    IF cs = <<>> THEN <<>>
    ELSE LET c == Head(cs)
             rest == OtsuSurvivors(Tail(cs), w, h)
         IN  IF InBand(c.a2, w, h) /\ ~IsFull(c, w, h) /\ AspectOk(c)
             THEN <<Candidate(c)>> \o rest
             ELSE rest

\* tuple order of Python on (area, x, y, cw, ch)
TupleLess(p, q) ==
    \/ p.a2 < q.a2
    \/ p.a2 = q.a2 /\ p.x < q.x
    \/ p.a2 = q.a2 /\ p.x = q.x /\ p.y < q.y
    \/ p.a2 = q.a2 /\ p.x = q.x /\ p.y = q.y /\ p.cw < q.cw
    \/ p.a2 = q.a2 /\ p.x = q.x /\ p.y = q.y /\ p.cw = q.cw /\ p.ch < q.ch

\* variant: only the normal polarity is searched
StrategyOtsuNormalOnly(img) ==
    LET res == OtsuSurvivors(ContoursOf(img, "otsu_normal"), img.w, img.h)
    IN  IF res = <<>> THEN <<>>
        ELSE LET i == CHOOSE k \in 1..Len(res) :
                          \A j \in 1..Len(res) : ~TupleLess(res[k], res[j])
             IN  <<res[i]>>

StrategyOtsu(img) ==
    LET res == OtsuSurvivors(ContoursOf(img, "otsu_normal"), img.w, img.h)
               \o OtsuSurvivors(ContoursOf(img, "otsu_inverted"), img.w, img.h)
    IN  IF res = <<>> THEN <<>>
        ELSE LET i == CHOOSE k \in 1..Len(res) :
                          \A j \in 1..Len(res) : ~TupleLess(res[k], res[j])
             IN  <<res[i]>>

(***************************************************************************)
(* strategy_brightness: `area > best_area` is tested before the filters.   *)
(***************************************************************************)
\* variant: best_area follows every contour inside the band, also one the
\* whole-image or aspect filter rejects
RECURSIVE BrightnessLoopEagerArea(_, _, _, _, _)
BrightnessLoopEagerArea(cs, w, h, best, bestArea) ==
    IF cs = <<>> THEN best
    ELSE LET c == Head(cs)
             larger == InBand(c.a2, w, h) /\ c.a2 > bestArea
             keep == ~IsFull(c, w, h) /\ AspectOk(c)
         IN  IF larger
             THEN BrightnessLoopEagerArea(Tail(cs), w, h,
                      IF keep THEN <<Candidate(c)>> ELSE best, c.a2)
             ELSE BrightnessLoopEagerArea(Tail(cs), w, h, best, bestArea)

RECURSIVE BrightnessLoop(_, _, _, _, _)
BrightnessLoop(cs, w, h, best, bestArea) ==
    IF cs = <<>> THEN best
    ELSE LET c == Head(cs)
             take == /\ InBand(c.a2, w, h) /\ c.a2 > bestArea
                     /\ ~IsFull(c, w, h) /\ AspectOk(c)
         IN  IF take
             THEN BrightnessLoop(Tail(cs), w, h, <<Candidate(c)>>, c.a2)
             ELSE BrightnessLoop(Tail(cs), w, h, best, bestArea)

StrategyBrightness(img) ==
    LET cs == ContoursOf(img, "brightness")
    IN  IF Len(cs) = 0 THEN <<>> ELSE BrightnessLoop(cs, img.w, img.h, <<>>, 0)

(***************************************************************************)
(* Arbitration and margin crop.                                            *)
(***************************************************************************)
\* results.append((name, result)) for every strategy that returned a tuple
Collect(r1, r2, r3) ==
    (IF r1 # <<>> THEN << <<"Canny", r1[1]>> >> ELSE <<>>)
    \o (IF r2 # <<>> THEN << <<"Otsu", r2[1]>> >> ELSE <<>>)
    \o (IF r3 # <<>> THEN << <<"Brillo", r3[1]>> >> ELSE <<>>)

\* results.sort(key=lambda x: x[1][4], reverse=True); results[0]
\* (the sort is stable: among equal areas the first collected stays first)
\* variant: no ordering at all, the first strategy that answered wins
SortKeyUnsorted(entry) == 0

SortKey(entry) == entry[2].a2

ArbitrationWinner(rs) ==
    LET i == CHOOSE k \in 1..Len(rs) :
                 /\ \A j \in 1..Len(rs) : SortKey(rs[j]) <= SortKey(rs[k])
                 /\ \A j \in 1..(k - 1) : SortKey(rs[j]) < SortKey(rs[k])
    IN  rs[i]

\* margin_x = int(cw * 0.03)
Margin(len) == (3 * len) \div 100

\* variant: the width and height clamped to w and h, not to w - x and h - y
MarginRectSizeOnly(c, w, h) ==
    LET mx == Margin(c.cw)
        my == Margin(c.ch)
    IN  [x |-> Max(0, c.x - mx), y |-> Max(0, c.y - my),
         cw |-> Min(w, c.cw + 2 * mx),
         ch |-> Min(h, c.ch + 2 * my)]

\* lines 311-317: the margin-expanded rectangle
MarginRect(c, w, h) ==
    LET mx == Margin(c.cw)
        my == Margin(c.ch)
        x1 == Max(0, c.x - mx)
        y1 == Max(0, c.y - my)
    IN  [x |-> x1, y |-> y1,
         cw |-> Min(w - x1, c.cw + 2 * mx),
         ch |-> Min(h - y1, c.ch + 2 * my)]

\* an image value: which picture, which region of it, and its size
WholeOf(img) == [src |-> img, x |-> 0, y |-> 0, w |-> img.w, h |-> img.h]

\* image.crop((x, y, x + cw, y + ch)): PIL raises when right < left or
\* lower < upper; <<>> stands for that exception, <<image>> for the crop
CropOf(img, r) ==
    IF r.cw < 0 \/ r.ch < 0 THEN <<>>
    ELSE << [src |-> img, x |-> r.x, y |-> r.y, w |-> r.cw, h |-> r.ch] >>

\* variant: no fallback, an empty `results` is indexed and raises
DetectAndCropNoFallback(img) ==
    LET rs == Collect(StrategyCanny(img), StrategyOtsu(img),
                      StrategyBrightness(img))
    IN  IF rs = <<>> THEN <<>>
        ELSE CropOf(img, MarginRect(ArbitrationWinner(rs)[2], img.w, img.h))

\* detect_and_crop_invoice_improved as a whole: <<image>> returned, or <<>>
\* when image.crop raises
DetectAndCrop(img) ==
    LET rs == Collect(StrategyCanny(img), StrategyOtsu(img),
                      StrategyBrightness(img))
    IN  IF rs = <<>> THEN <<WholeOf(img)>>
        ELSE CropOf(img, MarginRect(ArbitrationWinner(rs)[2], img.w, img.h))

(***************************************************************************)
(* detect_and_crop_invoice_improved, one action per step.                  *)
(***************************************************************************)
DInit ==
    /\ dimg \in Images(MaxContours)
    /\ dpc = "start"
    /\ result1 = <<>> /\ result2 = <<>> /\ result3 = <<>>
    /\ results = <<>> /\ chosen = <<>> /\ dout = <<>>

RunCanny ==
    /\ dpc = "start"
    /\ result1' = StrategyCanny(dimg)
    /\ dpc' = "canny_done"
    /\ UNCHANGED <<dimg, result2, result3, results, chosen, dout>>
    /\ UNCHANGED <<cvars, pvars, xvars>>

RunOtsu ==
    /\ dpc = "canny_done"
    /\ result2' = StrategyOtsu(dimg)
    /\ dpc' = "otsu_done"
    /\ UNCHANGED <<dimg, result1, result3, results, chosen, dout>>
    /\ UNCHANGED <<cvars, pvars, xvars>>

RunBrightness ==
    /\ dpc = "otsu_done"
    /\ result3' = StrategyBrightness(dimg)
    /\ results' = Collect(result1, result2, result3')
    /\ dpc' = "collected"
    /\ UNCHANGED <<dimg, result1, result2, chosen, dout>>
    /\ UNCHANGED <<cvars, pvars, xvars>>

\* lines 298-301: nothing found, `return image`
ReturnOriginal ==
    /\ dpc = "collected"
    /\ results = <<>>
    /\ dout' = <<WholeOf(dimg)>>
    /\ dpc' = "returned"
    /\ UNCHANGED <<dimg, result1, result2, result3, results, chosen>>
    /\ UNCHANGED <<cvars, pvars, xvars>>

\* lines 303-306
Arbitrate ==
    /\ dpc = "collected"
    /\ results # <<>>
    /\ chosen' = <<ArbitrationWinner(results)>>
    /\ dpc' = "arbitrated"
    /\ UNCHANGED <<dimg, result1, result2, result3, results, dout>>
    /\ UNCHANGED <<cvars, pvars, xvars>>

\* lines 310-324
CropWinner ==
    /\ dpc = "arbitrated"
    /\ LET c == CropOf(dimg, MarginRect(chosen[1][2], dimg.w, dimg.h))
       IN  IF c = <<>>
           THEN dout' = <<>> /\ dpc' = "raised"
           ELSE dout' = c /\ dpc' = "returned"
    /\ UNCHANGED <<dimg, result1, result2, result3, results, chosen>>
    /\ UNCHANGED <<cvars, pvars, xvars>>

DNext ==
    \/ RunCanny
    \/ RunOtsu
    \/ RunBrightness
    \/ ReturnOriginal
    \/ Arbitrate
    \/ CropWinner

(***************************************************************************)
(* Lines 310-324 as a function of (w, h, winning rectangle): the inputs    *)
(* are every rectangle of a w x h image that starts or ends within two     *)
(* pixels of an image edge (the margin of a side up to 66 is 0 or 1).      *)
(***************************************************************************)
SidesUpTo(n) == {1, 2, n}

Spans(n) ==
    { s \in (0..(n - 1)) \X (1..n) :
        /\ s[1] + s[2] <= n
        /\ (s[1] <= 2 \/ n - (s[1] + s[2]) <= 2) }

CropInput(w, h, sx, sy) ==
    [w |-> w, h |-> h,
     rect |-> [x |-> sx[1], y |-> sy[1], cw |-> sx[2], ch |-> sy[2], a2 |-> 0]]

CInit ==
    /\ \E w \in SidesUpTo(MaxSide), h \in SidesUpTo(MaxSide) :
          \E sx \in Spans(w), sy \in Spans(h) : cin = CropInput(w, h, sx, sy)
    /\ cout = <<>>

ApplyCrop ==
    /\ cout = <<>>
    /\ LET img == [w |-> cin.w, h |-> cin.h, found |-> <<>>]
           c == CropOf(img, MarginRect(cin.rect, cin.w, cin.h))
       IN  cout' = IF c = <<>> THEN <<"raised">> ELSE <<"ok", c[1]>>
    /\ UNCHANGED cin
    /\ UNCHANGED <<dvars, pvars, xvars>>

CNext == ApplyCrop


(***************************************************************************)
(* Parameter records.  The defaults of process_with_params (lines 465-476) *)
(* are the optimal set of process_invoice_optimal (lines 620-633).         *)
(***************************************************************************)
Optimal ==
    [median_blur |-> 1, bilateral_d |-> 14, bilateral_sigma |-> 100,
     clahe_clip |-> 0, clahe_grid |-> 4, adaptive_block |-> 17,
     adaptive_c |-> 2, gaussian_blur |-> 6, morph_open |-> 0,
     morph_close |-> 0, sharpness |-> 0, skip_crop |-> FALSE]

\* a caller-supplied record that switches every optional stage on
AllOn ==
    [median_blur |-> 4, bilateral_d |-> 9, bilateral_sigma |-> 75,
     clahe_clip |-> 2, clahe_grid |-> 8, adaptive_block |-> 16,
     adaptive_c |-> 5, gaussian_blur |-> 4, morph_open |-> 2,
     morph_close |-> 2, sharpness |-> 15, skip_crop |-> FALSE]

\* values a caller may post for one field
Overrides ==
    { <<"median_blur", -1>>, <<"median_blur", 0>>, <<"median_blur", 3>>,
      <<"median_blur", 4>>,
      <<"bilateral_d", -1>>, <<"bilateral_d", 0>>,
      <<"clahe_clip", 0>>, <<"clahe_clip", 2>>,
      <<"clahe_grid", 0>>,
      <<"adaptive_block", 0>>, <<"adaptive_block", 1>>, <<"adaptive_block", 2>>,
      <<"gaussian_blur", -2>>, <<"gaussian_blur", 0>>, <<"gaussian_blur", 7>>,
      <<"morph_open", -1>>, <<"morph_open", 3>>,
      <<"morph_close", -1>>, <<"morph_close", 3>>,
      <<"sharpness", 10>>,
      <<"skip_crop", TRUE>> }

RECURSIVE ApplyOverrides(_, _)
ApplyOverrides(p, ovs) ==
    IF ovs = <<>> THEN p
    ELSE ApplyOverrides([p EXCEPT ![Head(ovs)[1]] = Head(ovs)[2]], Tail(ovs))

ParamRecords(n) ==
    { ApplyOverrides(base, ovs) :
        base \in {Optimal, AllOn}, ovs \in SeqsUpTo(Overrides, n) }

(***************************************************************************)
(* Requests.  endpoint "with_params" is process_with_params, "optimal" is  *)
(* process_invoice_optimal, "direct" is a caller of                        *)
(* process_with_custom_params that holds the image and the record itself.  *)
(***************************************************************************)
BlankImage == [w |-> 100, h |-> 100, found |-> <<>>]

PipeImages ==
    { BlankImage,
      [w |-> 100, h |-> 100,
       found |-> << <<"canny", Contour(5782, 20, 20, 50, 60, 4)>> >>],
      [w |-> 100, h |-> 100,
       found |-> << <<"brightness", Contour(12482, 10, 10, 80, 80, 4)>> >>],
      [w |-> 1200, h |-> 1000,
       found |-> << <<"otsu_inverted", Contour(2351999, 0, 0, 1179, 1000, 4)>> >>] }

Request(e, f, d, img, given, kind) ==
    [endpoint |-> e, has_file |-> f, decodable |-> d, image |-> img,
     given |-> given, kind |-> kind]

OptimalWith(skip) == [Optimal EXCEPT !.skip_crop = skip]

Requests(n) ==
    { Request("direct", TRUE, TRUE, img, g, "fresh") :
        img \in PipeImages, g \in ParamRecords(n) }
    \cup { Request("with_params", TRUE, TRUE, img, g, "fresh") :
        img \in PipeImages, g \in ParamRecords(n) }
    \cup { Request("with_params", TRUE, FALSE, BlankImage, g, "fresh") :
        g \in ParamRecords(n) }
    \cup { Request("optimal", TRUE, TRUE, img, OptimalWith(skip), "fresh") :
        img \in PipeImages, skip \in BOOLEAN }
    \cup { Request("optimal", TRUE, FALSE, BlankImage, OptimalWith(skip), "fresh") :
        skip \in BOOLEAN }
    \cup { Request(e, FALSE, FALSE, BlankImage, Optimal, "fresh") :
        e \in {"with_params", "optimal"} }

\* calls that may run between a kept call and its repetition
BetweenRequests ==
    { Request("direct", TRUE, TRUE, img, AllOn, "between") : img \in PipeImages }
    \cup { Request("with_params", TRUE, FALSE, BlankImage, Optimal, "between") }

NoResp == [status |-> 0, kind |-> "none", image |-> <<>>, params |-> <<>>]

ErrorResp(status) ==
    [status |-> status, kind |-> "error", image |-> <<>>, params |-> <<>>]

\* Image.open(...) / image.convert('RGB'): a 3-channel image of the whole picture
Decoded(img) == [px |-> WholeOf(img), chan |-> 3, ops |-> <<>>]

Op(name, a, b) == [op |-> name, a |-> a, b |-> b]

\* one library call applied to the image value
Applied(im, name, a, b) == [im EXCEPT !.ops = Append(@, Op(name, a, b))]

(***************************************************************************)
(* Lines 457-485 / 613-641: the handler up to the call of                  *)
(* process_with_custom_params.  `passed` is the record a direct caller     *)
(* hands over.                                                             *)
(***************************************************************************)
Enter(r, passed) ==
    /\ req' = r
    /\ stages' = <<>>
    /\ IF r.endpoint = "direct"
       THEN /\ params' = passed
            /\ pimage' = Decoded(r.image)
            /\ resp' = NoResp
            /\ ppc' = "opened"
       ELSE IF ~r.has_file
       THEN /\ resp' = ErrorResp(400)
            /\ ppc' = "finished"
            /\ UNCHANGED <<params, pimage>>
       ELSE /\ params' = r.given
            /\ resp' = NoResp
            /\ IF r.decodable
               THEN pimage' = Decoded(r.image) /\ ppc' = "opened"
               ELSE pimage' = <<>> /\ ppc' = "raised"

Ready == ppc = "idle"

NoRequest == Request("direct", TRUE, TRUE, BlankImage, Optimal, "none")

FreshCall ==
    /\ Ready /\ ref = <<>>
    /\ \E r \in Requests(MaxOverrides) : Enter(r, r.given)
    /\ UNCHANGED ref
    /\ UNCHANGED <<dvars, cvars, xvars>>

\* the caller keeps a finished call, its answer and its record
Remember ==
    /\ ppc = "finished" /\ ref = <<>>
    /\ ref' = << [req |-> req, resp |-> resp, record |-> params] >>
    /\ UNCHANGED <<req, params, ppc, pimage, stages, resp>>
    /\ UNCHANGED <<dvars, cvars, xvars>>

\* the same image and the same parameter values, in a new record
RepeatCall ==
    /\ Ready /\ ref # <<>>
    /\ Enter([ref[1].req EXCEPT !.kind = "repeat"], ref[1].req.given)
    /\ UNCHANGED ref
    /\ UNCHANGED <<dvars, cvars, xvars>>

\* the same image and the very record the kept call was given
ReuseCall ==
    /\ Ready /\ ref # <<>>
    /\ ref[1].req.endpoint = "direct"
    /\ Enter([ref[1].req EXCEPT !.kind = "reuse"], ref[1].record)
    /\ UNCHANGED ref
    /\ UNCHANGED <<dvars, cvars, xvars>>

\* the same image and parameters but skip_crop negated
FlipCall ==
    /\ Ready /\ ref # <<>>
    /\ LET g == [ref[1].req.given EXCEPT !.skip_crop = ~@]
       IN  Enter([ref[1].req EXCEPT !.kind = "flip", !.given = g], g)
    /\ UNCHANGED ref
    /\ UNCHANGED <<dvars, cvars, xvars>>

BetweenCall ==
    /\ Ready /\ ref # <<>>
    /\ \E r \in BetweenRequests : Enter(r, r.given)
    /\ UNCHANGED ref
    /\ UNCHANGED <<dvars, cvars, xvars>>


(***************************************************************************)
(* process_with_custom_params, one action per stage.                       *)
(***************************************************************************)
\* variant: the size is incremented whatever its parity
OddSizeAlways(v) == v + 1

\* lines 525-526 and 531-532: if v % 2 == 0: v += 1
OddSize(v) == IF v % 2 = 0 THEN v + 1 ELSE v

\* variant: the parity test forgotten
OddGaussianNoParity(v) == IF v > 0 THEN v + 1 ELSE v

\* variant: the test v > 0 forgotten
OddGaussianNoGuard(v) == IF v % 2 = 0 THEN v + 1 ELSE v

\* lines 528-529: if v > 0 and v % 2 == 0: v += 1
OddGaussian(v) == IF v > 0 /\ v % 2 = 0 THEN v + 1 ELSE v

Corrected(p) ==
    [p EXCEPT !.median_blur = OddSize(@),
              !.gaussian_blur = OddGaussian(@),
              !.adaptive_block = OddSize(@)]

\* variant: skip_crop ignored
ShouldCropAlways(p) == TRUE

\* variant: median_blur compared with 0
MedianEnabledFromOne(p) == p.median_blur > 0

\* the guards of the optional stages
ShouldCrop(p) == ~p.skip_crop                  \* line 535
MedianEnabled(p) == p.median_blur > 1          \* line 547
BilateralEnabled(p) == p.bilateral_d > 0       \* line 550
ClaheEnabled(p) == p.clahe_clip > 0            \* line 555
GaussianEnabled(p) == p.gaussian_blur > 0      \* line 561
SharpenEnabled(p) == p.sharpness # 10          \* line 565: != 1.0
MorphOpenEnabled(p) == p.morph_open > 0        \* line 581
MorphCloseEnabled(p) == p.morph_close > 0      \* line 586

Ran(name) == stages' = Append(stages, name)

\* variant: the exception swallowed, the chain's result so far returned
RaiseSwallowed ==
    /\ ppc' = "processed"
    /\ UNCHANGED <<pimage, stages>>

\* an exception leaves the stage: nothing after it runs
Raise ==
    /\ ppc' = "raised"
    /\ UNCHANGED <<pimage, stages>>

OddCorrect ==
    /\ ppc = "opened"
    /\ params' = Corrected(params)
    /\ ppc' = "corrected"
    /\ UNCHANGED <<req, pimage, stages, resp, ref>>
    /\ UNCHANGED <<dvars, cvars, xvars>>

\* lines 535-536
CropStage ==
    /\ ppc = "corrected"
    /\ IF ShouldCrop(params)
       THEN LET d == DetectAndCrop(pimage.px.src)
            IN  IF d = <<>> THEN Raise
                ELSE /\ pimage' = [pimage EXCEPT !.px = d[1]]
                     /\ Ran("crop")
                     /\ ppc' = "cropped"
       ELSE ppc' = "cropped" /\ UNCHANGED <<pimage, stages>>
    /\ UNCHANGED <<req, params, resp, ref>>
    /\ UNCHANGED <<dvars, cvars, xvars>>

\* lines 539-544
GrayStage ==
    /\ ppc = "cropped"
    /\ IF pimage.chan = 3
       THEN pimage' = [Applied(pimage, "grayscale", 0, 0) EXCEPT !.chan = 1]
       ELSE UNCHANGED pimage
    /\ Ran("grayscale")
    /\ ppc' = "gray"
    /\ UNCHANGED <<req, params, resp, ref>>
    /\ UNCHANGED <<dvars, cvars, xvars>>

\* lines 547-548
MedianStage ==
    /\ ppc = "gray"
    /\ IF MedianEnabled(params)
       THEN /\ pimage' = Applied(pimage, "median", params.median_blur, 0)
            /\ Ran("median")
       ELSE UNCHANGED <<pimage, stages>>
    /\ ppc' = "median"
    /\ UNCHANGED <<req, params, resp, ref>>
    /\ UNCHANGED <<dvars, cvars, xvars>>

\* lines 550-553
BilateralStage ==
    /\ ppc = "median"
    /\ IF BilateralEnabled(params)
       THEN /\ pimage' = Applied(pimage, "bilateral", params.bilateral_d,
                                 params.bilateral_sigma)
            /\ Ran("bilateral")
       ELSE UNCHANGED <<pimage, stages>>
    /\ ppc' = "bilateral"
    /\ UNCHANGED <<req, params, resp, ref>>
    /\ UNCHANGED <<dvars, cvars, xvars>>

\* lines 555-558.  cv2 computes width % tilesX in CLAHE.apply: with a tile
\* grid of 0 the build either rejects the call (an exception) or the worker
\* dies on the division; both outcomes are kept.
ClaheStage ==
    /\ ppc = "bilateral"
    /\ \/ /\ ~ClaheEnabled(params)
          /\ ppc' = "clahe"
          /\ UNCHANGED <<pimage, stages, resp>>
       \/ /\ ClaheEnabled(params) /\ params.clahe_grid >= 1
          /\ pimage' = Applied(pimage, "contrast", params.clahe_clip,
                               params.clahe_grid)
          /\ Ran("contrast")
          /\ ppc' = "clahe"
          /\ UNCHANGED resp
       \/ /\ ClaheEnabled(params) /\ params.clahe_grid < 1
          /\ Raise
          /\ UNCHANGED resp
       \/ /\ ClaheEnabled(params) /\ params.clahe_grid < 1
          /\ resp' = [NoResp EXCEPT !.kind = "killed"]
          /\ ppc' = "finished"
          /\ UNCHANGED <<pimage, stages>>
    /\ UNCHANGED <<req, params, ref>>
    /\ UNCHANGED <<dvars, cvars, xvars>>

\* lines 561-562
GaussianStage ==
    /\ ppc = "clahe"
    /\ IF GaussianEnabled(params)
       THEN /\ pimage' = Applied(pimage, "gaussian", params.gaussian_blur, 0)
            /\ Ran("gaussian")
       ELSE UNCHANGED <<pimage, stages>>
    /\ ppc' = "gaussian"
    /\ UNCHANGED <<req, params, resp, ref>>
    /\ UNCHANGED <<dvars, cvars, xvars>>

\* lines 565-569 (sharpness in tenths: 10 is 1.0)
SharpenStage ==
    /\ ppc = "gaussian"
    /\ IF SharpenEnabled(params)
       THEN /\ pimage' = Applied(pimage, "sharpen", params.sharpness, 0)
            /\ Ran("sharpen")
       ELSE UNCHANGED <<pimage, stages>>
    /\ ppc' = "sharpened"
    /\ UNCHANGED <<req, params, resp, ref>>
    /\ UNCHANGED <<dvars, cvars, xvars>>

\* cv2.adaptiveThreshold asserts blockSize % 2 == 1 && blockSize > 1
BlockSizeAccepted(b) == b % 2 = 1 /\ b > 1

\* lines 572-578
ThresholdStage ==
    /\ ppc = "sharpened"
    /\ IF BlockSizeAccepted(params.adaptive_block)
       THEN /\ pimage' = Applied(pimage, "threshold", params.adaptive_block,
                                 params.adaptive_c)
            /\ Ran("threshold")
            /\ ppc' = "binary"
       ELSE Raise
    /\ UNCHANGED <<req, params, resp, ref>>
    /\ UNCHANGED <<dvars, cvars, xvars>>

\* lines 581-584
MorphOpenStage ==
    /\ ppc = "binary"
    /\ IF MorphOpenEnabled(params)
       THEN /\ pimage' = Applied(pimage, "opening", params.morph_open, 0)
            /\ Ran("opening")
       ELSE UNCHANGED <<pimage, stages>>
    /\ ppc' = "morph_opened"
    /\ UNCHANGED <<req, params, resp, ref>>
    /\ UNCHANGED <<dvars, cvars, xvars>>

\* lines 586-593
MorphCloseStage ==
    /\ ppc = "morph_opened"
    /\ IF MorphCloseEnabled(params)
       THEN /\ pimage' = Applied(pimage, "closing", params.morph_close, 0)
            /\ Ran("closing")
       ELSE UNCHANGED <<pimage, stages>>
    /\ ppc' = "processed"
    /\ UNCHANGED <<req, params, resp, ref>>
    /\ UNCHANGED <<dvars, cvars, xvars>>

(***************************************************************************)
(* The end of a call.                                                      *)
(***************************************************************************)
\* variant: the values as posted are echoed
EchoedParamsAsPosted == req.given

\* line 503: 'params': params, the dict process_with_custom_params was given
EchoedParams == params

\* lines 490-512 / 646-667
Respond ==
    /\ ppc = "processed"
    /\ req.endpoint # "direct"
    /\ \E fmt \in {"binary", "base64"} :
          resp' = [status |-> 200,
                   kind |-> IF fmt = "base64" THEN "json" ELSE "png",
                   image |-> <<pimage>>,
                   params |-> IF fmt = "base64" /\ req.endpoint = "with_params"
                              THEN <<EchoedParams>> ELSE <<>>]
    /\ ppc' = "finished"
    /\ UNCHANGED <<req, params, pimage, stages, ref>>
    /\ UNCHANGED <<dvars, cvars, xvars>>

\* line 593, seen by a direct caller
ReturnResult ==
    /\ ppc = "processed"
    /\ req.endpoint = "direct"
    /\ resp' = [NoResp EXCEPT !.kind = "returned", !.image = <<pimage>>]
    /\ ppc' = "finished"
    /\ UNCHANGED <<req, params, pimage, stages, ref>>
    /\ UNCHANGED <<dvars, cvars, xvars>>

\* lines 514-517 / 669-672: except Exception -> status 500
HandleException ==
    /\ ppc = "raised"
    /\ req.endpoint # "direct"
    /\ resp' = ErrorResp(500)
    /\ ppc' = "finished"
    /\ UNCHANGED <<req, params, pimage, stages, ref>>
    /\ UNCHANGED <<dvars, cvars, xvars>>

\* the exception leaves process_with_custom_params
Propagate ==
    /\ ppc = "raised"
    /\ req.endpoint = "direct"
    /\ resp' = [NoResp EXCEPT !.kind = "exception"]
    /\ ppc' = "finished"
    /\ UNCHANGED <<req, params, pimage, stages, ref>>
    /\ UNCHANGED <<dvars, cvars, xvars>>

\* the call is over: its locals are gone; a record handed over by the
\* caller stays with the caller as the callee left it
Release ==
    /\ ppc = "finished"
    /\ ref' = IF ref # <<>> /\ req.kind = "reuse"
              THEN << [ref[1] EXCEPT !.record = params] >>
              ELSE ref
    /\ req' = NoRequest
    /\ params' = Optimal
    /\ pimage' = <<>>
    /\ stages' = <<>>
    /\ resp' = NoResp
    /\ ppc' = "idle"
    /\ UNCHANGED <<dvars, cvars, xvars>>

PInit ==
    /\ req = NoRequest
    /\ params = Optimal
    /\ ppc = "idle"
    /\ pimage = <<>>
    /\ stages = <<>>
    /\ resp = NoResp
    /\ ref = <<>>

PNext ==
    \/ FreshCall
    \/ Remember
    \/ RepeatCall
    \/ ReuseCall
    \/ FlipCall
    \/ BetweenCall
    \/ OddCorrect
    \/ CropStage
    \/ GrayStage
    \/ MedianStage
    \/ BilateralStage
    \/ ClaheStage
    \/ GaussianStage
    \/ SharpenStage
    \/ ThresholdStage
    \/ MorphOpenStage
    \/ MorphCloseStage
    \/ Respond
    \/ ReturnResult
    \/ HandleException
    \/ Propagate
    \/ Release

(***************************************************************************)
(* process_invoice_image (lines 20-94), the fixed pipeline that            *)
(* urls.py does not route: preprocess_image_aggressive, detection on the   *)
(* preprocessed image, then the fixed enhancement functions.               *)
(***************************************************************************)
\* the picture preprocess_image_aggressive returns (line 126): a new image
\* of the same size; `found` are the contours the detector extracts from it
Preprocessed(img, dfound) ==
    [w |-> img.w, h |-> img.h, found |-> dfound, pre |-> img]

\* the picture is an output of preprocess_image_aggressive
IsPreprocessed(pic) == "pre" \in DOMAIN pic

LegacyRequest(f, d, img, dfound) ==
    [endpoint |-> "legacy", has_file |-> f, decodable |-> d, image |-> img,
     denoised |-> dfound, given |-> Optimal, kind |-> "fresh"]

LegacyRequests(n) ==
    { LegacyRequest(TRUE, TRUE, [w |-> d.w, h |-> d.h, found |-> <<>>], d.found) :
        d \in Images(n) }
    \cup { LegacyRequest(TRUE, FALSE, BlankImage, <<>>),
           LegacyRequest(FALSE, FALSE, BlankImage, <<>>) }

\* lines 30-40
LegacyCall ==
    /\ ppc = "idle"
    /\ \E r \in LegacyRequests(MaxContours) :
          /\ req' = r
          /\ IF ~r.has_file
             THEN /\ resp' = ErrorResp(400)
                  /\ ppc' = "finished"
                  /\ pimage' = <<>>
             ELSE /\ resp' = NoResp
                  /\ IF r.decodable
                     THEN pimage' = Decoded(r.image) /\ ppc' = "l_opened"
                     ELSE pimage' = <<>> /\ ppc' = "raised"
    /\ stages' = <<>>
    /\ UNCHANGED <<params, ref>>
    /\ UNCHANGED <<dvars, cvars, xvars>>

\* preprocess_image_aggressive (lines 97-128): a new image, the input is
\* only read; the result is converted back to RGB (lines 125-126)
PreprocessImageAggressive(im, dfound) ==
    LET g == IF im.chan = 3 THEN Applied(im, "grayscale", 0, 0) ELSE im
        m == Applied(g, "median", 5, 0)
        b == Applied(m, "bilateral", 9, 75)
        c == Applied(b, "closing", 3, 0)
        e == Applied(c, "contrast", 2, 8)
    IN  [px |-> WholeOf(Preprocessed(im.px.src, dfound)),
         chan |-> 3,
         ops |-> Applied(e, "gray2rgb", 0, 0).ops]

\* line 43
LegacyPreprocess ==
    /\ ppc = "l_opened"
    /\ pimage' = PreprocessImageAggressive(pimage, req.denoised)
    /\ Ran("denoise")
    /\ ppc' = "l_preprocessed"
    /\ UNCHANGED <<req, params, resp, ref>>
    /\ UNCHANGED <<dvars, cvars, xvars>>

\* line 46: detect_and_crop_invoice_improved(preprocessed)
LegacyCrop ==
    /\ ppc = "l_preprocessed"
    /\ LET d == DetectAndCrop(pimage.px.src)
       IN  IF d = <<>> THEN Raise
           ELSE /\ pimage' = [pimage EXCEPT !.px = d[1]]
                /\ Ran("crop")
                /\ ppc' = "l_cropped"
    /\ UNCHANGED <<req, params, resp, ref>>
    /\ UNCHANGED <<dvars, cvars, xvars>>

\* lines 49-58: convert('L'), clean_noise_aggressive, enhance_contrast,
\* apply_adaptive_threshold_improved (lines 327-388)
LegacyEnhance ==
    /\ ppc = "l_cropped"
    /\ LET g == [Applied(pimage, "grayscale", 0, 0) EXCEPT !.chan = 1]
           m == Applied(g, "median", 5, 0)
           u == Applied(m, "gaussian", 3, 0)
           b == Applied(u, "bilateral", 9, 50)
           c == Applied(b, "contrast", 4, 8)
           h == Applied(c, "sharpen", 15, 0)
       IN  pimage' = Applied(h, "threshold", 31, 15)
    /\ stages' = stages \o <<"grayscale", "clean", "contrast", "threshold">>
    /\ ppc' = "l_binary"
    /\ UNCHANGED <<req, params, resp, ref>>
    /\ UNCHANGED <<dvars, cvars, xvars>>

\* line 61, final_noise_removal (lines 391-412)
LegacyFinalNoiseRemoval ==
    /\ ppc = "l_binary"
    /\ LET o == Applied(pimage, "opening", 2, 0)
           c == Applied(o, "closing", 2, 0)
       IN  pimage' = Applied(c, "median", 3, 0)
    /\ Ran("final_cleanup")
    /\ ppc' = "l_final"
    /\ UNCHANGED <<req, params, resp, ref>>
    /\ UNCHANGED <<dvars, cvars, xvars>>

\* lines 64-89
LegacyRespond ==
    /\ ppc = "l_final"
    /\ \E fmt \in {"file", "base64"} :
          resp' = [status |-> 200,
                   kind |-> IF fmt = "file" THEN "png" ELSE "json",
                   image |-> <<pimage>>, params |-> <<>>]
    /\ ppc' = "finished"
    /\ UNCHANGED <<req, params, pimage, stages, ref>>
    /\ UNCHANGED <<dvars, cvars, xvars>>

\* lines 91-94
LegacyHandleException ==
    /\ ppc = "raised"
    /\ req.endpoint = "legacy"
    /\ resp' = ErrorResp(500)
    /\ ppc' = "finished"
    /\ UNCHANGED <<req, params, pimage, stages, ref>>
    /\ UNCHANGED <<dvars, cvars, xvars>>

LNext ==
    \/ LegacyCall
    \/ LegacyPreprocess
    \/ LegacyCrop
    \/ LegacyEnhance
    \/ LegacyFinalNoiseRemoval
    \/ LegacyRespond
    \/ LegacyHandleException

(***************************************************************************)
(* exchange_rates/alert_utils.py: the spread alert.  Spreads and band      *)
(* values are carried in hundredths of a percent, so round(x, 2) is        *)
(* rounding to an integer.  Days are day numbers, instants are ticks of    *)
(* `clock` (0 is a null timestamp).  The AlertState model class is not     *)
(* among the sources; its single row is the record `astate` with the       *)
(* fields its callers read and write.                                      *)
(***************************************************************************)
MaxSpread == 3

MaxHistory == 4

MaxDay == 2

MaxClock == 5

AlertBands == {"MIN", "AVG", "P75", "MAX"}

NoSpread == -1

NoTime == 0

SpreadValues == 0..MaxSpread

\* what calculate_historical_spreads can return
Histories == SeqsUpTo(SpreadValues, MaxHistory)

InitialAlertStates ==
    { [current_band |-> b, last_check |-> NoTime, last_alert_sent |-> NoTime,
       bands_calculation_date |-> d, band_min_value |-> 0,
       band_avg_value |-> 0, band_p75_value |-> 0, band_max_value |-> 0] :
      b \in AlertBands, d \in 0..1 }

\* sorted(spreads)
RECURSIVE SortedSpreads(_)
SortedSpreads(s) ==
    IF s = <<>> THEN <<>>
    ELSE LET i == CHOOSE k \in 1..Len(s) :
                      /\ \A m \in 1..Len(s) : s[k] <= s[m]
                      /\ \A m \in 1..(k - 1) : s[m] # s[k]
             rest == [m \in 1..(Len(s) - 1) |-> IF m < i THEN s[m] ELSE s[m + 1]]
         IN  <<s[i]>> \o SortedSpreads(rest)

\* round(num / den, 2) in hundredths: to the nearest integer, ties to even
RoundHalfEven(num, den) ==
    LET q == num \div den
        r == num % den
    IN  IF 2 * r < den THEN q
        ELSE IF 2 * r > den THEN q + 1
        ELSE IF q % 2 = 0 THEN q ELSE q + 1

\* statistics.median(d) of sorted d, as <<numerator, denominator>>
Median(d) ==
    LET n == Len(d)
    IN  IF n % 2 = 1 THEN <<d[(n + 1) \div 2], 1>>
        ELSE <<d[n \div 2] + d[(n \div 2) + 1], 2>>

\* statistics.quantiles(d, n=4)[2] of sorted d (method 'exclusive')
ThirdQuartile(d) ==
    LET ld == Len(d)
        m == ld + 1
        j0 == (3 * m) \div 4
        j == IF j0 < 1 THEN 1 ELSE IF j0 > ld - 1 THEN ld - 1 ELSE j0
        delta == 3 * m - j * 4
    IN  <<d[j] * (4 - delta) + d[j + 1] * delta, 4>>

\* calculate_spread_bands: <<>> is None
CalculateSpreadBands(spreads) ==
    IF spreads = <<>> \/ Len(spreads) < 4 THEN <<>>
    ELSE LET d == SortedSpreads(spreads)
             med == Median(d)
             q3 == ThirdQuartile(d)
         IN  << [min |-> RoundHalfEven(d[1], 1),
                 avg |-> RoundHalfEven(med[1], med[2]),
                 p75 |-> RoundHalfEven(q3[1], q3[2]),
                 max |-> RoundHalfEven(d[Len(d)], 1)] >>

\* classify_spread
ClassifySpread(spread_percent, bands) ==
    IF spread_percent < bands.avg THEN "MIN"
    ELSE IF spread_percent < bands.p75 THEN "AVG"
    ELSE IF spread_percent < bands.max THEN "P75"
    ELSE "MAX"

\* lines 237-238: how many spreads were found, and the bands of them
HistoryBands ==
    { [found |-> Len(spreads), bands |-> CalculateSpreadBands(spreads)] :
      spreads \in Histories }

\* update_alert_state_bands that recalculates on every call
UpdateAlertStateBandsUnguarded(state, force, day, bands) ==
    IF bands = <<>>
    THEN [ret |-> FALSE, state |-> state, at |-> "insufficient"]
    ELSE [ret |-> TRUE,
          state |-> [state EXCEPT !.bands_calculation_date = day,
                                  !.band_min_value = bands[1].min,
                                  !.band_avg_value = bands[1].avg,
                                  !.band_p75_value = bands[1].p75,
                                  !.band_max_value = bands[1].max],
          at |-> "stored"]

\* update_alert_state_bands(force) on the row `state`, `bands` being the
\* value of line 238: the value returned, the row as it is afterwards, and
\* the return statement taken
UpdateAlertStateBands(state, force, day, bands) ==
    IF ~force /\ state.bands_calculation_date = day
    THEN [ret |-> FALSE, state |-> state, at |-> "cached"]
    ELSE IF bands = <<>>
    THEN [ret |-> FALSE, state |-> state, at |-> "insufficient"]
    ELSE [ret |-> TRUE,
          state |-> [state EXCEPT !.bands_calculation_date = day,
                                  !.band_min_value = bands[1].min,
                                  !.band_avg_value = bands[1].avg,
                                  !.band_p75_value = bands[1].p75,
                                  !.band_max_value = bands[1].max],
          at |-> "stored"]

BandsOf(state) ==
    [min |-> state.band_min_value, avg |-> state.band_avg_value,
     p75 |-> state.band_p75_value, max |-> state.band_max_value]

\* line 298 with the comparison lost: every check counts as a change
BandChangedAlways(new_band, previous_band) == TRUE

\* line 298: band_changed
BandChanged(new_band, previous_band) == new_band # previous_band

\* lines 312-316 storing the band only once its alert went out
SavedStateOnSuccess(state, new_band, alert_sent, now) ==
    [state EXCEPT !.current_band = IF alert_sent THEN new_band ELSE @,
                  !.last_check = now + 1,
                  !.last_alert_sent = IF alert_sent THEN now + 2 ELSE @]

\* lines 312-316: the row check_and_alert saves
SavedState(state, new_band, alert_sent, now) ==
    [state EXCEPT !.current_band = new_band,
                  !.last_check = now + 1,
                  !.last_alert_sent = IF alert_sent THEN now + 2 ELSE @]

\* what a run found in the row when it began
Before(state) ==
    [current_band |-> state.current_band, last_check |-> state.last_check,
     last_alert_sent |-> state.last_alert_sent]

\* what is kept of a run once the next one begins
Summary(run) ==
    [finished |-> run.finished, success |-> run.success,
     new_band |-> run.new_band, band_changed |-> run.band_changed,
     attempted |-> run.attempted, alert_sent |-> run.alert_sent]

NoRun ==
    [before |-> <<>>, state |-> <<>>, bands_recalculated |-> FALSE,
     returned_at |-> "", spreads_found |-> 0, spread |-> NoSpread, new_band |-> "",
     previous_band |-> "", band_changed |-> FALSE, attempted |-> FALSE,
     alert_sent |-> FALSE, success |-> FALSE, finished |-> FALSE]

AInit ==
    /\ astate \in InitialAlertStates
    /\ today = 1
    /\ clock = 1
    /\ apc = "idle"
    /\ alocal = NoRun
    /\ aprev = Summary(NoRun)
    /\ recalcs = 0

\* line 266: state = AlertState.get_instance()
CheckAndAlert ==
    /\ apc = "idle"
    /\ clock < MaxClock
    /\ apc' = "bands"
    /\ aprev' = IF alocal.success THEN Summary(alocal) ELSE aprev
    /\ alocal' = [NoRun EXCEPT !.before = Before(astate), !.state = astate]
    /\ UNCHANGED <<astate, today, clock, recalcs, oavars>>

\* lines 269-272: update_alert_state_bands(), state.refresh_from_db()
UpdateBands ==
    /\ apc = "bands"
    /\ \E h \in HistoryBands :
         LET out == UpdateAlertStateBands(astate, FALSE, today, h.bands)
         IN  /\ astate' = out.state
             /\ recalcs' = IF out.ret THEN recalcs + 1 ELSE recalcs
             /\ alocal' = [alocal EXCEPT !.bands_recalculated = out.ret,
                                         !.returned_at = out.at,
                                         !.spreads_found =
                                             IF out.at = "cached" THEN 0
                                             ELSE h.found,
                                         !.state = out.state]
    /\ apc' = "spread"
    /\ UNCHANGED <<today, clock, aprev, oavars>>

\* lines 275-281: calculate_current_spread() found no rate
NoCurrentSpread ==
    /\ apc = "spread"
    /\ alocal' = [alocal EXCEPT !.spread = NoSpread, !.success = FALSE,
                                !.finished = TRUE]
    /\ apc' = "idle"
    /\ UNCHANGED <<astate, today, clock, aprev, recalcs, oavars>>

\* lines 275-297: the spread, its band and the comparison
Classify ==
    /\ apc = "spread"
    /\ \E s \in SpreadValues :
         LET nb == ClassifySpread(s, BandsOf(alocal.state))
             pb == alocal.state.current_band
         IN  alocal' = [alocal EXCEPT !.spread = s, !.new_band = nb,
                                      !.previous_band = pb,
                                      !.band_changed = BandChanged(nb, pb)]
    /\ apc' = "alert"
    /\ UNCHANGED <<astate, today, clock, aprev, recalcs, oavars>>

\* lines 300-302 with a band change: send_telegram_alert returns ok
SendTelegramAlert ==
    /\ apc = "alert"
    /\ alocal.band_changed
    /\ \E ok \in BOOLEAN :
         alocal' = [alocal EXCEPT !.attempted = TRUE, !.alert_sent = ok]
    /\ apc' = "save"
    /\ UNCHANGED <<astate, today, clock, aprev, recalcs, oavars>>

\* lines 300-302 without a band change
SkipAlert ==
    /\ apc = "alert"
    /\ ~alocal.band_changed
    /\ apc' = "save"
    /\ UNCHANGED <<astate, today, clock, alocal, aprev, recalcs, oavars>>

\* lines 304-327: the row is saved and the result returned
SaveState ==
    /\ apc = "save"
    /\ astate' = SavedState(alocal.state, alocal.new_band, alocal.alert_sent,
                            clock)
    /\ clock' = clock + 2
    /\ alocal' = [alocal EXCEPT !.success = TRUE, !.finished = TRUE]
    /\ apc' = "idle"
    /\ UNCHANGED <<today, aprev, recalcs, oavars>>

\* midnight
NextDay ==
    /\ today < MaxDay
    /\ today' = today + 1
    /\ recalcs' = 0
    /\ UNCHANGED <<astate, clock, apc, alocal, aprev, oavars>>

ANext ==
    \/ CheckAndAlert
    \/ UpdateBands
    \/ NoCurrentSpread
    \/ Classify
    \/ SendTelegramAlert
    \/ SkipAlert
    \/ SaveState
    \/ NextDay

(***************************************************************************)
(* invoice_processor/views.py, lines 89-137: the user of a request is      *)
(* looked up by UserProfile.telegram_user and created when missing.  The   *)
(* view runs in autocommit, so every query is a step other requests can    *)
(* interleave with.  A telegram_user is a sequence of characters; a        *)
(* username is <<name, k>>: the name itself for k = 0, name_k otherwise.   *)
(* auth User.username and UserProfile.telegram_user are unique, and        *)
(* UserProfile.user is one-to-one (users/models.py 8-21).                  *)
(***************************************************************************)
MaxRequests == 2

RequestIds == 1..MaxRequests

\* request.POST.get('telegram_user', '').strip(): what n8n can post
PostedTelegramUsers == { <<>>, <<"a">>, <<"@", "a">>, <<"b">> }

\* str.lstrip('@')
RECURSIVE LStripAt(_)
LStripAt(t) ==
    IF t # <<>> /\ Head(t) = "@" THEN LStripAt(Tail(t)) ELSE t

NoUser == <<<<>>, 0>>

\* the rows before the first request: none, a registered "a", or a User
\* named "a" that has no profile (created outside the endpoint)
InitialAccounts ==
    { [users |-> {}, profiles |-> {}],
      [users |-> {<< <<"a">>, 0 >>},
       profiles |-> {[user |-> << <<"a">>, 0 >>, telegram_user |-> <<"a">>]}],
      [users |-> {<< <<"a">>, 0 >>}, profiles |-> {}] }

\* UserProfile.objects.filter(telegram_user=t)
ProfilesOf(t) == { p \in profiles : p.telegram_user = t }

UInit ==
    /\ \E acc \in InitialAccounts :
          users = acc.users /\ profiles = acc.profiles
    /\ ureq \in [RequestIds ->
                   { [posted |-> t, telegram_user |-> <<>>, pc |-> "new",
                      username |-> NoUser, counter |-> 0, user |-> NoUser,
                      existed |-> FALSE, made |-> NoUser] :
                     t \in PostedTelegramUsers }]
    /\ created = {}

\* lines 89-94: telegram_user missing, status 400
RejectBlank(r) ==
    /\ ureq[r].pc = "new"
    /\ ureq[r].posted = <<>>
    /\ ureq' = [ureq EXCEPT ![r].pc = "rejected"]
    /\ UNCHANGED <<users, profiles, created, ouvars>>

\* lines 89-98: the request is taken up
Accept(r) ==
    /\ ureq[r].pc = "new"
    /\ ureq[r].posted # <<>>
    /\ LET t == LStripAt(ureq[r].posted)
       IN  ureq' = [ureq EXCEPT ![r].telegram_user = t,
                                ![r].existed = ProfilesOf(t) # {},
                                ![r].pc = "lookup"]
    /\ UNCHANGED <<users, profiles, created, ouvars>>

\* lines 103-107: the profile exists
FoundProfile(r) ==
    /\ ureq[r].pc = "lookup"
    /\ \E p \in ProfilesOf(ureq[r].telegram_user) :
          ureq' = [ureq EXCEPT ![r].user = p.user, ![r].pc = "process"]
    /\ UNCHANGED <<users, profiles, created, ouvars>>

\* lines 103-113: no profile, the username search begins
NoProfile(r) ==
    /\ ureq[r].pc = "lookup"
    /\ ProfilesOf(ureq[r].telegram_user) = {}
    /\ ureq' = [ureq EXCEPT ![r].username = <<ureq[r].telegram_user, 0>>,
                            ![r].counter = 1, ![r].pc = "loop"]
    /\ UNCHANGED <<users, profiles, created, ouvars>>

\* lines 115-117: the username is taken, try the next suffix
UsernameTaken(r) ==
    /\ ureq[r].pc = "loop"
    /\ ureq[r].username \in users
    /\ ureq' = [ureq EXCEPT
                  ![r].username = <<ureq[r].telegram_user, ureq[r].counter>>,
                  ![r].counter = @ + 1]
    /\ UNCHANGED <<users, profiles, created, ouvars>>

\* line 115: the username is free
UsernameFree(r) ==
    /\ ureq[r].pc = "loop"
    /\ ureq[r].username \notin users
    /\ ureq' = [ureq EXCEPT ![r].pc = "create_user"]
    /\ UNCHANGED <<users, profiles, created, ouvars>>

\* lines 119-123: User.objects.create_user; a taken username is an
\* IntegrityError, caught at line 133
CreateUser(r) ==
    /\ ureq[r].pc = "create_user"
    /\ IF ureq[r].username \in users
       THEN /\ ureq' = [ureq EXCEPT ![r].pc = "failed"]
            /\ UNCHANGED <<users, created>>
       ELSE /\ users' = users \cup {ureq[r].username}
            /\ created' = created \cup {ureq[r].username}
            /\ ureq' = [ureq EXCEPT ![r].user = ureq[r].username,
                                    ![r].made = ureq[r].username,
                                    ![r].pc = "create_profile"]
    /\ UNCHANGED <<profiles, ouvars>>

\* the INSERT of a UserProfile is refused
ProfileConflict(user, telegram_user) ==
    \E p \in profiles : p.telegram_user = telegram_user \/ p.user = user

\* lines 126-129: UserProfile.objects.create; a taken telegram_user is an
\* IntegrityError, caught at line 133
CreateProfile(r) ==
    /\ ureq[r].pc = "create_profile"
    /\ IF ProfileConflict(ureq[r].user, ureq[r].telegram_user)
       THEN /\ ureq' = [ureq EXCEPT ![r].pc = "failed"]
            /\ UNCHANGED profiles
       ELSE /\ profiles' = profiles \cup
                  {[user |-> ureq[r].user,
                    telegram_user |-> ureq[r].telegram_user]}
            /\ ureq' = [ureq EXCEPT ![r].pc = "process"]
    /\ UNCHANGED <<users, created, ouvars>>

\* lines 141-154: the invoice is processed for the user and the response sent
ProcessInvoice(r) ==
    /\ ureq[r].pc = "process"
    /\ ureq' = [ureq EXCEPT ![r].pc = "done"]
    /\ UNCHANGED <<users, profiles, created, ouvars>>

UNext ==
    \E r \in RequestIds :
       \/ RejectBlank(r)
       \/ Accept(r)
       \/ FoundProfile(r)
       \/ NoProfile(r)
       \/ UsernameTaken(r)
       \/ UsernameFree(r)
       \/ CreateUser(r)
       \/ CreateProfile(r)
       \/ ProcessInvoice(r)

(***************************************************************************)
(* invoice_processor/services.py, lines 420-545 and 565-665: one call of   *)
(* _save_to_database.  The rows are sets keyed as get_or_create looks      *)
(* them up: establishments, products and brands by name, variants by       *)
(* value, assignments by (product, variant).  `swork` is what the call's   *)
(* transaction has written, `sdb` what is committed.  "" is a missing      *)
(* name.                                                                   *)
(***************************************************************************)
MaxItems == 2

\* an item of purchase_items: producto.name, producto.brand and
\* producto.variants (a variant "" has no type or no value)
ItemData ==
    [name : {"", "p"}, brand : {"", "b"}, variants : SeqsUpTo({"", "v"}, 1)]

SaveInputs ==
    [establishment : {"", "e"}, has_user : BOOLEAN,
     items : SeqsUpTo(ItemData, MaxItems)]

EmptyRows ==
    [establishments |-> {}, categories |-> {}, products |-> {},
     brands |-> {}, product_brands |-> {}, variants |-> {},
     assignments |-> {}, purchases |-> {}, items |-> {}]

\* the tables before the call: empty, or after an earlier invoice
InitialRows ==
    { EmptyRows,
      [establishments |-> {"e"}, categories |-> {"Sin Clasificar"},
       products |-> {"p"}, brands |-> {"b"}, product_brands |-> {},
       variants |-> {"v"}, assignments |-> {<<"p", "v">>}, purchases |-> {1},
       items |-> {[purchase |-> 1, index |-> 1, product |-> "p"]}] }

\* line 420: the method is wrapped in @transaction.atomic
TransactionAtomicMissing == FALSE

TransactionAtomic == TRUE

\* the committed rows after an exception left the method
AfterException(committed, written) ==
    IF TransactionAtomic THEN committed ELSE written

\* Purchase.objects.create: a fresh primary key
NewPurchaseId(rows) == Cardinality(rows.purchases) + 1

\* lines 638-662: the variants loop of one item
RECURSIVE AddVariants(_, _, _)
AddVariants(rows, product, variants) ==
    IF variants = <<>> THEN rows
    ELSE LET v == Head(variants)
             next == IF v = "" THEN rows
                     ELSE [rows EXCEPT
                             !.variants = @ \cup {v},
                             !.assignments = @ \cup {<<product, v>>}]
         IN  AddVariants(next, product, Tail(variants))

SInit ==
    /\ sdata \in SaveInputs
    /\ sdb \in InitialRows
    /\ sbefore = sdb
    /\ swork = sdb
    /\ spc = "establishment"
    /\ sidx = 0
    /\ spurchase = 0

\* lines 457-482: get_or_create of the establishment, when it has a name
GetOrCreateEstablishment ==
    /\ spc = "establishment"
    /\ swork' = IF sdata.establishment = "" THEN swork
                ELSE [swork EXCEPT !.establishments = @ \cup {sdata.establishment}]
    /\ spc' = "purchase"
    /\ UNCHANGED <<sdata, sidx, sdb, sbefore, spurchase, osvars>>

\* the exception leaves the method: the transaction is rolled back
Escapes ==
    /\ spc' = "raised"
    /\ sdb' = AfterException(sdb, swork)
    /\ UNCHANGED <<sdata, sidx, sbefore, swork, spurchase, osvars>>

\* lines 499-515: Purchase.objects.create; user is not nullable
CreatePurchase ==
    /\ spc = "purchase"
    /\ sdata.has_user
    /\ spurchase' = NewPurchaseId(swork)
    /\ swork' = [swork EXCEPT !.purchases = @ \cup {NewPurchaseId(swork)}]
    /\ spc' = "category"
    /\ UNCHANGED <<sdata, sidx, sdb, sbefore, osvars>>

PurchaseWithoutUser ==
    /\ spc = "purchase"
    /\ ~sdata.has_user
    /\ Escapes

\* line 520: _get_or_create_uncategorized_category
GetOrCreateCategory ==
    /\ spc = "category"
    /\ swork' = [swork EXCEPT !.categories = @ \cup {"Sin Clasificar"}]
    /\ sidx' = 1
    /\ spc' = "item"
    /\ UNCHANGED <<sdata, sdb, sbefore, spurchase, osvars>>

\* lines 524, 587-621: the product of the item, looked up or created by
\* name
GetOrCreateProduct ==
    /\ spc = "item"
    /\ sidx <= Len(sdata.items)
    /\ LET item == sdata.items[sidx]
       IN  IF item.name = ""
           THEN /\ spc' = "create_item"
                /\ UNCHANGED swork
           ELSE /\ swork' = [swork EXCEPT !.products = @ \cup {item.name}]
                /\ spc' = "brand"
    /\ UNCHANGED <<sdata, sidx, sdb, sbefore, spurchase, osvars>>

\* line 624 without a brand
NoBrand ==
    /\ spc = "brand"
    /\ sdata.items[sidx].brand = ""
    /\ spc' = "variants"
    /\ UNCHANGED <<sdata, sidx, sdb, sbefore, swork, spurchase, osvars>>

\* lines 624-628: the brand is looked up or created
GetOrCreateBrand ==
    /\ spc = "brand"
    /\ sdata.items[sidx].brand # ""
    /\ swork' = [swork EXCEPT !.brands = @ \cup {sdata.items[sidx].brand}]
    /\ spc' = "associate"
    /\ UNCHANGED <<sdata, sidx, sdb, sbefore, spurchase, osvars>>

\* lines 631-635: the brand is associated with the product.  Product
\* (products/models.py 60-67) has the foreign key `brand` and no attribute
\* `brands`, so with these models line 631 is the AttributeError that
\* StatementFails takes from here; the association is what the method
\* does on a Product that has the relation.
AssociateBrand ==
    /\ spc = "associate"
    /\ swork' = [swork EXCEPT !.product_brands = @ \cup
                   {<<sdata.items[sidx].name, sdata.items[sidx].brand>>}]
    /\ spc' = "variants"
    /\ UNCHANGED <<sdata, sidx, sdb, sbefore, spurchase, osvars>>

\* lines 638-662: the variants and their assignments
AddItemVariants ==
    /\ spc = "variants"
    /\ swork' = AddVariants(swork, sdata.items[sidx].name,
                            sdata.items[sidx].variants)
    /\ spc' = "create_item"
    /\ UNCHANGED <<sdata, sidx, sdb, sbefore, spurchase, osvars>>

\* lines 526-541: PurchaseItem.objects.create
CreatePurchaseItem ==
    /\ spc = "create_item"
    /\ swork' = [swork EXCEPT !.items = @ \cup
                   {[purchase |-> spurchase, index |-> sidx,
                     product |-> sdata.items[sidx].name]}]
    /\ sidx' = sidx + 1
    /\ spc' = "item"
    /\ UNCHANGED <<sdata, sdb, sbefore, spurchase, osvars>>

\* a statement fails: a database error, a value Decimal() rejects, or
\* the AttributeError of line 631
StatementFails ==
    /\ spc \in {"establishment", "purchase", "category", "item", "brand",
                "associate", "variants", "create_item"}
    /\ Escapes

\* line 545: return purchase; the transaction commits
ReturnPurchase ==
    /\ spc = "item"
    /\ sidx > Len(sdata.items)
    /\ sdb' = swork
    /\ spc' = "returned"
    /\ UNCHANGED <<sdata, sidx, sbefore, swork, spurchase, osvars>>

SNext ==
    \/ GetOrCreateEstablishment
    \/ CreatePurchase
    \/ PurchaseWithoutUser
    \/ GetOrCreateCategory
    \/ GetOrCreateProduct
    \/ NoBrand
    \/ GetOrCreateBrand
    \/ AssociateBrand
    \/ AddItemVariants
    \/ CreatePurchaseItem
    \/ StatementFails
    \/ ReturnPurchase

(***************************************************************************)
(* Specifications.                                                         *)
(***************************************************************************)
vars == <<dvars, cvars, pvars, xvars>>

DIdle ==
    /\ dimg = <<>> /\ dpc = "off" /\ result1 = <<>> /\ result2 = <<>>
    /\ result3 = <<>> /\ results = <<>> /\ chosen = <<>> /\ dout = <<>>

CIdle == cin = <<>> /\ cout = <<>>

PIdle ==
    /\ req = <<>> /\ params = <<>> /\ ppc = "off" /\ pimage = <<>>
    /\ stages = <<>> /\ resp = <<>> /\ ref = <<>>

AIdle ==
    /\ astate = <<>> /\ today = 0 /\ clock = 0 /\ apc = "off"
    /\ alocal = <<>> /\ aprev = <<>> /\ recalcs = 0

UIdle == users = {} /\ profiles = {} /\ ureq = <<>> /\ created = {}

SIdle ==
    /\ sdata = <<>> /\ spc = "off" /\ sidx = 0 /\ sdb = <<>>
    /\ sbefore = <<>> /\ swork = <<>> /\ spurchase = 0

XIdle == AIdle /\ UIdle /\ SIdle

Init == PInit /\ DIdle /\ CIdle /\ XIdle

Next == PNext

Spec == Init /\ [][Next]_vars

InitDetect == DInit /\ CIdle /\ PIdle /\ XIdle

SpecDetect == InitDetect /\ [][DNext]_vars

InitCrop == CInit /\ DIdle /\ PIdle /\ XIdle

SpecCrop == InitCrop /\ [][CNext]_vars

InitLegacy == PInit /\ DIdle /\ CIdle /\ XIdle

InitAlert == AInit /\ DIdle /\ CIdle /\ PIdle /\ UIdle /\ SIdle

SpecAlert == InitAlert /\ [][ANext]_vars

InitUsers == UInit /\ DIdle /\ CIdle /\ PIdle /\ AIdle /\ SIdle

SpecUsers == InitUsers /\ [][UNext]_vars

InitSave == SInit /\ DIdle /\ CIdle /\ PIdle /\ AIdle /\ UIdle

SpecSave == InitSave /\ [][SNext]_vars

SpecLegacy == InitLegacy /\ [][LNext]_vars


(***************************************************************************)
(* Properties.                                                             *)
(***************************************************************************)
Returned == {result1, result2, result3} \ {<<>>}

\* C1: whenever arbitration has chosen, the chosen entry is one of the
\* collected candidates, its raw contour area is at least the area of every
\* candidate a strategy returned, and the region cropped contains its
\* rectangle.
C1_LargestAreaWins ==
    chosen # <<>> =>
        /\ \E i \in 1..Len(results) : results[i] = chosen[1]
        /\ \A r \in Returned : r[1].a2 <= chosen[1][2].a2
        /\ dpc = "returned" =>
              /\ dout[1].x <= chosen[1][2].x
              /\ dout[1].y <= chosen[1][2].y
              /\ dout[1].x + dout[1].w >= chosen[1][2].x + chosen[1][2].cw
              /\ dout[1].y + dout[1].h >= chosen[1][2].y + chosen[1][2].ch

\* C1 witness: two candidates of different area, the winner is not the first
\* one collected, and the crop has been made.
C1_Witness ==
    /\ dpc = "returned" /\ chosen # <<>>
    /\ Len(results) >= 2
    /\ results[1][1] = "Canny"
    /\ chosen[1][1] # "Canny"
    /\ results[1][2].a2 < chosen[1][2].a2

\* the image has no contour that any strategy accepts
NoCandidate(img) ==
    /\ StrategyCanny(img) = <<>>
    /\ StrategyOtsu(img) = <<>>
    /\ StrategyBrightness(img) = <<>>

\* the record process_with_custom_params was called with
Passed == IF req.kind = "reuse" THEN ref[1].record ELSE req.given

Succeeded == ppc = "finished" /\ resp.image # <<>>

\* C2: on an image without candidate the crop stage hands the whole input
\* image on, and a call that differs from a kept call only in skip_crop
\* ends with the same output (the same image value, or none in both).
C2_Fallback ==
    /\ (ppc = "cropped" /\ NoCandidate(req.image)) => pimage = Decoded(req.image)
    /\ (ppc = "finished" /\ ref # <<>> /\ req.kind = "flip"
            /\ NoCandidate(req.image))
          => resp.image = ref[1].resp.image

\* C2 witness: a finished call with skip_crop = false on an image whose only
\* contour is rejected, compared with the kept skip_crop = true call.
C2_Witness ==
    /\ Succeeded /\ ref # <<>> /\ req.kind = "flip"
    /\ ~req.given.skip_crop
    /\ req.image.found # <<>> /\ NoCandidate(req.image)
    /\ ref[1].resp.image # <<>>

\* C3: for a rectangle inside the image the margin-expanded rectangle starts
\* at or before it, ends at or after it, stays inside the image, and the
\* crop does not raise.
C3_CropBounds ==
    cout # <<>> =>
        /\ cout[1] = "ok"
        /\ LET r == cin.rect
               o == cout[2]
           IN  /\ 0 <= o.x /\ o.x <= r.x
               /\ 0 <= o.y /\ o.y <= r.y
               /\ o.x + o.w <= cin.w
               /\ o.y + o.h <= cin.h
               /\ o.x + o.w >= r.x + r.cw
               /\ o.y + o.h >= r.y + r.ch
               /\ r.cw <= o.w /\ o.w <= cin.w
               /\ r.ch <= o.h /\ o.h <= cin.h

\* C3 witness: a crop whose margin is clamped at the left edge and at the
\* bottom edge.
C3_Witness ==
    /\ cout # <<>>
    /\ Margin(cin.rect.cw) >= 1 /\ cin.rect.x < Margin(cin.rect.cw)
    /\ Margin(cin.rect.ch) >= 1
    /\ cin.rect.y + cin.rect.ch + Margin(cin.rect.ch) > cin.h
    /\ cin.rect.x + cin.rect.cw < cin.w

\* C4: a call with the image and the parameter values of a kept call, in a
\* new record or in the record the kept call was given, ends with the output
\* image of the kept call (or with none when the kept call had none),
\* whatever calls ran before or between.
C4_Determinism ==
    (ppc = "finished" /\ ref # <<>> /\ req.kind \in {"repeat", "reuse"})
        => resp.image = ref[1].resp.image

\* C4 witness: a successful call that reused a record the kept call had
\* changed.
C4_Witness ==
    /\ Succeeded /\ ref # <<>> /\ req.kind = "reuse"
    /\ ref[1].record # req.given

Running ==
    {"cropped", "gray", "median", "bilateral", "clahe", "gaussian",
     "sharpened", "binary", "morph_opened", "processed"}

C5_Final ==
    Succeeded =>
        LET im == resp.image[1]
        IN  /\ im.chan = 1
            /\ im.px.w \in 1..req.image.w
            /\ im.px.h \in 1..req.image.h
            /\ (Passed.skip_crop \/ NoCandidate(req.image))
                  => (im.px.w = req.image.w /\ im.px.h = req.image.h)

C5_Step ==
    (ppc \in Running /\ ppc' \in Running)
        => (pimage'.px.w = pimage.px.w /\ pimage'.px.h = pimage.px.h)

\* C5: a successful run returns a single-channel image no wider and no
\* higher than the input and at least 1 x 1, of the input's size when
\* skip_crop is set or no candidate exists; no stage after the crop changes
\* the size.
C5_Dimensions == []C5_Final /\ [][C5_Step]_vars

\* C5 witness: a successful run with skip_crop set on an image that has a
\* candidate.
C5_Witness ==
    /\ Succeeded /\ Passed.skip_crop /\ ~NoCandidate(req.image)
    /\ Len(resp.image[1].ops) >= 6

\* C6: every candidate a strategy returns has
\* 0.10*w*h < area < 0.98*w*h, both strict.
C6_AreaBand ==
    \A r \in Returned :
        /\ 10 * r[1].a2 > 2 * dimg.w * dimg.h
        /\ 100 * r[1].a2 < 196 * dimg.w * dimg.h

\* C6 witness: strategy_canny saw a contour of area exactly 0.98*w*h and
\* returned another one.
C6_Witness ==
    /\ dpc = "collected" /\ result1 # <<>>
    /\ \E i \in 1..Len(dimg.found) :
          /\ dimg.found[i][1] = "canny"
          /\ 100 * dimg.found[i][2].a2 = 196 * dimg.w * dimg.h

Even(v) == v % 2 = 0

AfterCorrection == Running \cup {"corrected"}

\* C7: after the correction the record holds median_blur + 1 and
\* adaptive_block + 1 for even values, gaussian_blur + 1 for an even value
\* above 0, every other value as given, and the median, Gaussian and
\* threshold stages are run with the values of the record.
C7_OddSizes ==
    (ppc \in AfterCorrection \/ Succeeded) =>
        /\ params.median_blur =
              IF Even(Passed.median_blur) THEN Passed.median_blur + 1
              ELSE Passed.median_blur
        /\ params.adaptive_block =
              IF Even(Passed.adaptive_block) THEN Passed.adaptive_block + 1
              ELSE Passed.adaptive_block
        /\ params.gaussian_blur =
              IF Even(Passed.gaussian_blur) /\ Passed.gaussian_blur > 0
              THEN Passed.gaussian_blur + 1
              ELSE Passed.gaussian_blur
        /\ \A i \in 1..Len(pimage.ops) :
              /\ pimage.ops[i].op = "median" => pimage.ops[i].a = params.median_blur
              /\ pimage.ops[i].op = "gaussian" => pimage.ops[i].a = params.gaussian_blur
              /\ pimage.ops[i].op = "threshold" => pimage.ops[i].a = params.adaptive_block

\* C7 witness: the optimal record, gaussian_blur = 6, finished with a 7 x 7
\* Gaussian blur.
C7_Witness ==
    /\ Succeeded /\ req.kind = "fresh" /\ req.given.gaussian_blur = 6
    /\ \E i \in 1..Len(resp.image[1].ops) :
          resp.image[1].ops[i] = Op("gaussian", 7, 0)

When(b, name) == IF b THEN <<name>> ELSE <<>>

\* the stages the claim expects for a parameter record
ExpectedStages(p) ==
    When(~p.skip_crop, "crop") \o <<"grayscale">>
    \o When(p.median_blur > 1, "median")
    \o When(p.bilateral_d > 0, "bilateral")
    \o When(p.clahe_clip > 0, "contrast")
    \o When(p.gaussian_blur > 0, "gaussian")
    \o When(p.sharpness # 10, "sharpen")
    \o <<"threshold">>
    \o When(p.morph_open > 0, "opening")
    \o When(p.morph_close > 0, "closing")

IsPrefix(s, t) == Len(s) <= Len(t) /\ \A i \in 1..Len(s) : s[i] = t[i]

\* C8: a run that completes has run exactly the stages its parameter record
\* enables, in the fixed order; at every point of any run the stages run so
\* far are the first ones of that list.
C8_StageOrder ==
    /\ (ppc = "processed" \/ Succeeded) => stages = ExpectedStages(Passed)
    /\ ppc \notin {"idle", "off"} => IsPrefix(stages, ExpectedStages(Passed))

\* C8 witness: a successful run in which all ten stages ran.
C8_Witness ==
    /\ Succeeded
    /\ stages = <<"crop", "grayscale", "median", "bilateral", "contrast",
                  "gaussian", "sharpen", "threshold", "opening", "closing">>
    /\ ~NoCandidate(req.image)

Offending(p) ==
    \/ p.median_blur <= 0 \/ p.adaptive_block < 3 \/ p.gaussian_blur < 0
    \/ p.bilateral_d < 0 \/ p.clahe_grid < 1
    \/ p.morph_open < 0 \/ p.morph_close < 0

\* C9: a call whose record holds median_blur <= 0, adaptive_block < 3,
\* gaussian_blur < 0, bilateral_d < 0, clahe_grid < 1, morph_open < 0 or
\* morph_close < 0 never ends with an output image.
C9_FailFast ==
    (ppc = "finished" /\ req.has_file /\ req.decodable /\ req.kind # "none"
        /\ Offending(Passed))
      => resp.image = <<>>

\* C10: an upload that cannot be decoded is answered by both endpoints with
\* a 4xx status, an error body and no image.
C10_DecodeError ==
    (ppc = "finished" /\ req.endpoint \in {"with_params", "optimal"}
        /\ req.has_file /\ ~req.decodable)
      => /\ resp.status \in 400..499
         /\ resp.kind = "error"
         /\ resp.image = <<>>

NoDuplicates(s) == \A i, j \in 1..Len(s) : s[i] = s[j] => i = j

Routed == req.endpoint \in {"with_params", "optimal"}

C11_Outcome ==
    (ppc = "finished" /\ Routed) =>
        \/ /\ resp.status = 200 /\ resp.kind \in {"json", "png"}
           /\ resp.image = <<pimage>>
           /\ stages = ExpectedStages(Passed)
           /\ Len(pimage.ops) = Len(stages) - (IF Passed.skip_crop THEN 0 ELSE 1)
        \/ /\ resp.image = <<>>
           /\ \/ resp.kind = "error" /\ resp.status \in {400, 500}
              \/ resp.kind = "killed" /\ resp.status = 0

C11_NoFile ==
    (ppc = "finished" /\ Routed /\ ~req.has_file) =>
        (resp = ErrorResp(400) /\ stages = <<>>)

C11_Step ==
    /\ ppc = "raised" =>
          /\ ppc' = "finished" /\ stages' = stages
          /\ resp'.image = <<>> /\ resp'.kind \in {"error", "exception"}
    /\ (ppc = "finished" /\ ppc' # "idle") => (resp' = resp /\ stages' = stages)

C12_IndependentClamp ==
    (cout # <<>> /\ cout[1] = "ok") =>
        LET r == cin.rect
            o == cout[2]
            mx == (3 * r.cw) \div 100
            my == (3 * r.ch) \div 100
        IN  /\ o.x = Max(0, r.x - mx)
            /\ o.x + o.w = Min(cin.w, r.x + r.cw + mx)
            /\ o.y = Max(0, r.y - my)
            /\ o.y + o.h = Min(cin.h, r.y + r.ch + my)

\* the positions of the detector at which a strategy has answered
CannyDone == dpc \in {"canny_done", "otsu_done", "collected", "arbitrated",
                      "returned", "raised"}
OtsuDone == dpc \in {"otsu_done", "collected", "arbitrated", "returned", "raised"}
BrightnessDone == dpc \in {"collected", "arbitrated", "returned", "raised"}

\* 0.3 <= cw/ch <= 3.0
AspectClosed(c) == c.ch > 0 /\ 3 * c.ch <= 10 * c.cw /\ c.cw <= 3 * c.ch

\* some contour of the given maps passes the area and whole-image filters
\* and has its aspect ratio in the closed interval
KeptClosed(tags) ==
    \E i \in 1..Len(dimg.found) :
        LET c == dimg.found[i][2]
        IN  /\ dimg.found[i][1] \in tags
            /\ InBand(c.a2, dimg.w, dimg.h) /\ ~IsFull(c, dimg.w, dimg.h)
            /\ AspectClosed(c)

\* C13: a contour that passes the area and whole-image filters and whose
\* aspect ratio lies in [0.3, 3.0], endpoints included, is kept, so its
\* strategy returns a candidate; what a strategy returns has its aspect
\* ratio in that interval.
C13_AspectClosed ==
    /\ (CannyDone /\ KeptClosed({"canny"})) => result1 # <<>>
    /\ (OtsuDone /\ KeptClosed({"otsu_normal", "otsu_inverted"})) => result2 # <<>>
    /\ (BrightnessDone /\ KeptClosed({"brightness"})) => result3 # <<>>
    /\ \A r \in Returned : AspectClosed(r[1])

\* a bounding box that starts within 10 px of the origin and covers at
\* least (w - 20) x (h - 20)
WholeImageBox(r) ==
    r.x <= 10 /\ r.y <= 10 /\ r.cw >= dimg.w - 20 /\ r.ch >= dimg.h - 20

\* C14: no candidate a strategy returns is a whole-image box, and neither is
\* the rectangle arbitration chooses.
C14_NoWholeImage ==
    /\ \A r \in Returned : ~WholeImageBox(r[1])
    /\ chosen # <<>> => ~WholeImageBox(chosen[1][2])

\* C14 witness: a whole-image contour that passes the area and aspect
\* filters was seen, and arbitration chose another contour.
C14_Witness ==
    /\ chosen # <<>>
    /\ \E i \in 1..Len(dimg.found) :
          LET c == dimg.found[i][2]
          IN  /\ WholeImageBox(c) /\ c.x = 10 /\ c.y = 10
              /\ InBand(c.a2, dimg.w, dimg.h) /\ AspectOk(c)

\* the contour passes the area, whole-image and aspect filters of the code
Passes(c) ==
    InBand(c.a2, dimg.w, dimg.h) /\ ~IsFull(c, dimg.w, dimg.h) /\ AspectOk(c)

\* indices of the contours of the given maps that pass the filters
Survivors(tags) ==
    { i \in 1..Len(dimg.found) :
        dimg.found[i][1] \in tags /\ Passes(dimg.found[i][2]) }

\* ten times the score: area * 1.0 with four vertices, area * 0.7 otherwise
Score10(c) == IF c.nv = 4 THEN 10 * c.a2 ELSE 7 * c.a2

\* C15: strategy_canny returns no candidate iff no contour passes the
\* filters; otherwise it returns the rectangle and the raw area of a passing
\* contour whose score is the highest of all passing contours.
C15_CannySelection ==
    CannyDone =>
        /\ result1 = <<>> <=> Survivors({"canny"}) = {}
        /\ result1 # <<>> =>
              \E i \in Survivors({"canny"}) :
                  /\ result1[1] = Candidate(dimg.found[i][2])
                  /\ \A j \in Survivors({"canny"}) :
                        Score10(dimg.found[j][2]) <= Score10(dimg.found[i][2])

\* C15 witness: a 4-vertex contour of area A was returned although a passing
\* contour without 4 vertices has a larger area B, with A > 0.7 * B.
C15_Witness ==
    /\ CannyDone /\ result1 # <<>>
    /\ \E j \in Survivors({"canny"}) :
          /\ dimg.found[j][2].nv # 4
          /\ dimg.found[j][2].a2 > result1[1].a2
          /\ 10 * result1[1].a2 > 7 * dimg.found[j][2].a2

OtsuTags == {"otsu_normal", "otsu_inverted"}

\* C16: strategy_otsu returns no candidate iff neither polarity has a
\* contour that passes the filters; otherwise it returns a passing contour
\* whose area is the largest over both polarities.
C16_OtsuSelection ==
    OtsuDone =>
        /\ result2 = <<>> <=> Survivors(OtsuTags) = {}
        /\ result2 # <<>> =>
              \E i \in Survivors(OtsuTags) :
                  /\ result2[1] = Candidate(dimg.found[i][2])
                  /\ \A j \in Survivors(OtsuTags) :
                        dimg.found[j][2].a2 <= dimg.found[i][2].a2

\* C16 witness: the candidate returned was found in the inverted polarity
\* only, and the normal polarity has a smaller survivor.
C16_Witness ==
    /\ OtsuDone /\ result2 # <<>>
    /\ \A i \in Survivors({"otsu_normal"}) :
          dimg.found[i][2].a2 < result2[1].a2
    /\ Survivors({"otsu_normal"}) # {}
    /\ \E i \in Survivors({"otsu_inverted"}) :
          result2[1] = Candidate(dimg.found[i][2])

\* C17: strategy_brightness returns no candidate iff no contour passes the
\* filters; otherwise it returns a passing contour of the largest area among
\* the passing ones, in whatever order the contours are visited.
C17_BrightnessSelection ==
    BrightnessDone =>
        /\ result3 = <<>> <=> Survivors({"brightness"}) = {}
        /\ result3 # <<>> =>
              \E i \in Survivors({"brightness"}) :
                  /\ result3[1] = Candidate(dimg.found[i][2])
                  /\ \A j \in Survivors({"brightness"}) :
                        dimg.found[j][2].a2 <= dimg.found[i][2].a2

\* C17 witness: a contour of larger area that fails the whole-image or the
\* aspect filter was visited before the contour returned.
C17_Witness ==
    /\ BrightnessDone /\ result3 # <<>>
    /\ \E i, j \in 1..Len(dimg.found) :
          /\ i < j
          /\ dimg.found[i][1] = "brightness" /\ dimg.found[j][1] = "brightness"
          /\ ~Passes(dimg.found[i][2])
          /\ InBand(dimg.found[i][2].a2, dimg.w, dimg.h)
          /\ dimg.found[i][2].a2 > dimg.found[j][2].a2
          /\ result3[1] = Candidate(dimg.found[j][2])

\* the list `results` in every order in which it could have been collected
Reordered(rs) ==
    { [i \in 1..Len(rs) |-> rs[f[i]]] :
        f \in { g \in [1..Len(rs) -> 1..Len(rs)] :
                  \A a, b \in 1..Len(rs) : g[a] = g[b] => a = b } }

SameRect(p, q) == p.x = q.x /\ p.y = q.y /\ p.cw = q.cw /\ p.ch = q.ch

\* C18: the rectangle arbitration selects is the one it selects from the
\* same candidates collected in any other order, also when two candidates
\* have equal area and different rectangles.
C18_OrderIndependent ==
    chosen # <<>> =>
        \A rs \in Reordered(results) :
            SameRect(ArbitrationWinner(rs)[2], chosen[1][2])

Cropping == \E i \in 1..Len(stages) : stages[i] = "crop"

\* C19: whenever boundary detection has run, the Denoise stage ran before
\* it and the image the strategies analysed is the output of that stage.
C19_DenoiseFirst ==
    \A i \in 1..Len(stages) :
        stages[i] = "crop" =>
            /\ \E j \in 1..(i - 1) : stages[j] = "denoise"
            /\ IsPreprocessed(pimage.px.src)

\* C20: whenever a crop has been made, the region handed on is a region of
\* the original image of the request, not of a denoised image.
C20_CropSource ==
    Cropping =>
        /\ ~IsPreprocessed(pimage.px.src)
        /\ pimage.px.src = req.image

\* the fixed-default path: process_invoice_optimal, and a direct call with
\* the optimal record as _process_image makes it
FixedDefault ==
    \/ req.endpoint = "optimal"
    \/ req.endpoint = "direct" /\ req.given = Optimal

\* the last three library calls are opening (2), closing (2), median (3)
EndsWithCleanup(im) ==
    LET n == Len(im.ops)
    IN  /\ n >= 3
        /\ im.ops[n - 2] = Op("opening", 2, 0)
        /\ im.ops[n - 1] = Op("closing", 2, 0)
        /\ im.ops[n] = Op("median", 3, 0)

\* C21: a successful run of the fixed-default path has the final cleanup
\* (opening, closing, 3 x 3 median) as its last stage; no run of
\* process_with_params has a final cleanup stage.
C21_FinalCleanup ==
    /\ (Succeeded /\ FixedDefault) =>
          /\ stages # <<>> /\ stages[Len(stages)] = "final_cleanup"
          /\ EndsWithCleanup(resp.image[1])
    /\ req.endpoint = "with_params" =>
          \A i \in 1..Len(stages) : stages[i] # "final_cleanup"

\* C22: a run with the optimal parameter set that completes has run exactly
\* crop, grayscale, bilateral filter, Gaussian blur and adaptive threshold.
C22_OptimalStages ==
    ((ppc = "processed" \/ Succeeded) /\ Passed = Optimal) =>
        stages = <<"crop", "grayscale", "bilateral", "gaussian", "threshold">>

\* the value a median, Gaussian or threshold stage was run with, 0 if the
\* stage did not run
UsedBy(im, name) ==
    IF \E i \in 1..Len(im.ops) : im.ops[i].op = name
    THEN im.ops[CHOOSE i \in 1..Len(im.ops) : im.ops[i].op = name].a
    ELSE 0

\* C23: the 'params' of a successful base64 answer of process_with_params
\* are the posted values after the odd-size correction, and the sizes in it
\* are the ones the stages were run with.
C23_ParamEcho ==
    (ppc = "finished" /\ req.endpoint = "with_params" /\ resp.kind = "json") =>
        /\ resp.params # <<>>
        /\ LET e == resp.params[1]
               g == req.given
               im == resp.image[1]
           IN  /\ e.median_blur = IF Even(g.median_blur) THEN g.median_blur + 1
                                  ELSE g.median_blur
               /\ e.adaptive_block = IF Even(g.adaptive_block)
                                     THEN g.adaptive_block + 1
                                     ELSE g.adaptive_block
               /\ e.gaussian_blur = IF Even(g.gaussian_blur) /\ g.gaussian_blur > 0
                                    THEN g.gaussian_blur + 1
                                    ELSE g.gaussian_blur
               /\ \A f \in DOMAIN g \ {"median_blur", "adaptive_block",
                                        "gaussian_blur"} : e[f] = g[f]
               /\ UsedBy(im, "median") \in {0, e.median_blur}
               /\ UsedBy(im, "gaussian") \in {0, e.gaussian_blur}
               /\ UsedBy(im, "threshold") = e.adaptive_block

\* C23 witness: median_blur = 4 was posted and 5 is echoed.
C23_Witness ==
    /\ ppc = "finished" /\ req.endpoint = "with_params" /\ resp.kind = "json"
    /\ req.given.median_blur = 4
    /\ resp.params # <<>> /\ resp.params[1].median_blur = 5
    /\ UsedBy(resp.image[1], "median") = 5

\* C24: what preprocess_image_aggressive returns is a single-channel image
\* of the width and height of its input, obtained by grayscale, median (5),
\* bilateral (9, 75), closing (3), contrast equalization (2.0, 8 x 8) in
\* that order, and the input image is as it was.
C24_DenoiseContract ==
    ppc = "l_preprocessed" =>
        /\ pimage.px.w = req.image.w /\ pimage.px.h = req.image.h
        /\ Len(pimage.ops) >= 5
        /\ SubSeq(pimage.ops, 1, 5) =
              << Op("grayscale", 0, 0), Op("median", 5, 0),
                 Op("bilateral", 9, 75), Op("closing", 3, 0),
                 Op("contrast", 2, 8) >>
        /\ pimage.px.src.pre = req.image
        /\ pimage.chan = 1

SizeFields == {"median_blur", "gaussian_blur", "adaptive_block"}

\* the odd-size correction has been applied to the record of this call
PastCorrection == ppc \in AfterCorrection \cup {"raised", "finished"}
                  /\ req.has_file /\ req.decodable

\* C25: from the correction to the end of the call the record differs from
\* the record passed in only in median_blur, gaussian_blur and
\* adaptive_block, each the same or one more, one more only for an even
\* value (for gaussian_blur an even value above 0); a record that comes
\* from an earlier call is left as it is and gives the output of that call.
C25_RecordEffect ==
    /\ PastCorrection =>
          /\ DOMAIN params = DOMAIN Passed
          /\ \A f \in DOMAIN Passed \ SizeFields : params[f] = Passed[f]
          /\ \A f \in SizeFields :
                /\ params[f] \in {Passed[f], Passed[f] + 1}
                /\ params[f] = Passed[f] + 1 =>
                      (Even(Passed[f]) /\ (f = "gaussian_blur" => Passed[f] > 0))
    /\ (PastCorrection /\ req.kind = "reuse") => params = Passed
    /\ (ppc = "finished" /\ req.kind = "reuse") =>
          resp.image = ref[1].resp.image

\* C25 witness: a call changed median_blur, gaussian_blur and adaptive_block
\* of its record, and a second call with that record has ended with an image.
C25_Witness ==
    /\ Succeeded /\ req.kind = "reuse"
    /\ \A f \in SizeFields : Passed[f] = req.given[f] + 1
    /\ params = Passed

\* a run of check_and_alert has returned
RunReturned == apc = "idle" /\ alocal.finished

\* C26: a run that found a spread called send_telegram_alert exactly when
\* the band of that spread differs from the band stored when the run began;
\* it left that band in current_band and a later last_check, and changed
\* last_alert_sent only if the send succeeded.  A run that found no spread
\* returned success=False and left current_band and last_alert_sent alone.
C26_BandChangeAlert ==
    RunReturned =>
       /\ alocal.success <=> alocal.spread # NoSpread
       /\ alocal.success =>
             /\ alocal.new_band = ClassifySpread(alocal.spread, BandsOf(astate))
             /\ alocal.attempted <=>
                    alocal.new_band # alocal.before.current_band
             /\ alocal.band_changed <=> alocal.attempted
             /\ astate.current_band = alocal.new_band
             /\ astate.last_check > alocal.before.last_check
             /\ astate.last_alert_sent # alocal.before.last_alert_sent =>
                    (alocal.attempted /\ alocal.alert_sent)
             /\ alocal.alert_sent =>
                    astate.last_alert_sent > alocal.before.last_alert_sent
       /\ ~alocal.success =>
             /\ ~alocal.attempted
             /\ astate.current_band = alocal.before.current_band
             /\ astate.last_alert_sent = alocal.before.last_alert_sent

\* C26 witness: a run found a spread in another band than the stored one,
\* sent the alert and recorded it.
C26_Witness ==
    /\ RunReturned /\ alocal.success
    /\ alocal.new_band # alocal.before.current_band
    /\ alocal.attempted /\ alocal.alert_sent
    /\ astate.last_alert_sent > alocal.before.last_alert_sent

\* the last earlier run that found a spread tried to send and failed
FailedBefore == aprev.success /\ aprev.attempted /\ ~aprev.alert_sent

\* C27: a run whose send failed has stored the new band all the same; a
\* run that finds the band the last run with a spread found reports
\* band_changed=False and does not call send_telegram_alert, whether that
\* run's send failed or not, so a band transition gets one attempt at most.
C27_NoRetry ==
    RunReturned /\ alocal.success =>
       /\ (alocal.attempted /\ ~alocal.alert_sent) =>
              astate.current_band = alocal.new_band
       /\ (aprev.success /\ alocal.new_band = aprev.new_band) =>
              (~alocal.band_changed /\ ~alocal.attempted)

\* C27 witness: the send of one run failed and the next run with a spread,
\* finding the same band, has returned without an attempt.
C27_Witness ==
    /\ RunReturned /\ alocal.success
    /\ FailedBefore
    /\ alocal.new_band = aprev.new_band
    /\ ~alocal.attempted

\* the step that runs update_alert_state_bands
BandsStep == apc = "bands" /\ apc' = "spread"

Ordered(bands) ==
    bands.min <= bands.avg /\ bands.avg <= bands.p75 /\ bands.p75 <= bands.max

\* C28: update_alert_state_bands stores bands at most once per calendar
\* day; called with bands_calculation_date already today it returns False
\* and changes nothing; with fewer than 4 spreads it returns False and
\* leaves the band values and bands_calculation_date as they were, so the
\* date still differs from today and the next check recalculates; bands it
\* stores are dated today and satisfy min <= avg <= p75 <= max.
C28_BandRefresh ==
    /\ [](recalcs <= 1)
    /\ [][BandsStep =>
            /\ astate.bands_calculation_date = today =>
                  (astate' = astate /\ ~alocal'.bands_recalculated)
            /\ (alocal'.returned_at # "cached" /\ alocal'.spreads_found < 4) =>
                  /\ alocal'.returned_at = "insufficient"
                  /\ ~alocal'.bands_recalculated
                  /\ astate' = astate
                  /\ astate'.bands_calculation_date # today
            /\ alocal'.bands_recalculated =>
                  /\ alocal'.spreads_found >= 4
                  /\ astate'.bands_calculation_date = today
                  /\ Ordered(BandsOf(astate'))]_vars

\* C28 witness: a check has stored four distinct bands, the one
\* recalculation of its day.
C28_Witness ==
    /\ apc = "spread" /\ alocal.bands_recalculated /\ recalcs = 1
    /\ astate.bands_calculation_date = today
    /\ astate.band_min_value < astate.band_avg_value
    /\ astate.band_avg_value < astate.band_p75_value
    /\ astate.band_p75_value < astate.band_max_value

\* every request has been answered
AllAnswered == \A r \in RequestIds : ureq[r].pc \in {"done", "failed", "rejected"}

OneProfilePerTelegramUser ==
    \A p, q \in profiles : p.telegram_user = q.telegram_user => p = q

CreatedUsersHaveProfiles ==
    \A u \in created : \E p \in profiles : p.user = u

KnownUserCreatesNone ==
    \A r \in RequestIds : ureq[r].existed => ureq[r].made = NoUser

\* C29: once every request is answered, whatever the interleaving, there
\* is at most one UserProfile per telegram_user, every User the endpoint
\* created has a UserProfile, and a request whose telegram_user had a
\* profile when it came in created no User.
C29_GetOrCreate ==
    AllAnswered =>
       /\ OneProfilePerTelegramUser
       /\ CreatedUsersHaveProfiles
       /\ KnownUserCreatesNone

\* the PurchaseItem rows of purchase p
ItemsOf(rows, p) == { i \in rows.items : i.purchase = p }

\* C30: a call of _save_to_database that returns has committed exactly one
\* new Purchase, with one PurchaseItem per input item and no other new
\* PurchaseItem; a call that raises leaves every table as it was when the
\* call began; nothing is committed while the call runs.
C30_AtomicSave ==
    /\ spc = "returned" =>
          /\ spurchase \notin sbefore.purchases
          /\ sdb.purchases = sbefore.purchases \cup {spurchase}
          /\ sdb.items \ sbefore.items = ItemsOf(sdb, spurchase)
          /\ Cardinality(ItemsOf(sdb, spurchase)) = Len(sdata.items)
          /\ \A k \in 1..Len(sdata.items) :
                \E i \in ItemsOf(sdb, spurchase) : i.index = k
    /\ spc = "raised" => sdb = sbefore
    /\ spc \notin {"off", "returned", "raised"} => sdb = sbefore

\* C30 witness: the call raised after it had written an establishment, a
\* product, the Purchase and a PurchaseItem, and none of them is committed.
C30_Witness ==
    /\ spc = "raised"
    /\ swork.purchases # sbefore.purchases
    /\ swork.items # sbefore.items
    /\ swork.products # sbefore.products
    /\ swork.establishments # sbefore.establishments
    /\ sdb = sbefore

====
